---- MODULE Spec2Model ----
(***************************************************************************)
(* Model of the Personal Web Clipper's MarkdownConverter                   *)
(* (src/unnamed/part_004, lines 238-426) and FileSaver                     *)
(* (src/personal-web-clipper/src/file-saver.ts), of its                    *)
(* ReadabilityExtractor (src/personal-web-clipper/src/readability.ts) and  *)
(* PersonalWebClipper (src/personal-web-clipper/src/main.ts), of the LLM   *)
(* Judge's ConfigManager (src/unnamed/part_001) and of the YouTube Clean   *)
(* Player's page logic (src/unnamed/part_008).  Each component has its own *)
(* specification; the variables of the other components stay null in it.   *)
(*                                                                         *)
(* A JavaScript string is a sequence of one-character strings, so that     *)
(* replace, trim, split and the regular expressions of the source are      *)
(* computed character by character.  A DOM node is a record; null is the   *)
(* empty sequence <<>> and a non-null value v is <<v>>.                    *)
(***************************************************************************)
EXTENDS Integers, Sequences, FiniteSets, TLC

\* doc: the DOM tree handed to the converter
\* results: for each node htmlToMarkdown has been called on (a path from the
\*   root of doc), the string the latest call returned
\* contrib: for each node processNode has been called on, the string the
\*   latest call returned
\* repeated: whether htmlToMarkdown has been called on a node it had already
\*   converted
\* clip: the arguments of a call of createMarkdownDocument, what the host's
\*   toLocaleString made of the timestamp and the document returned (null
\*   until the call is made)
\* saver: a call of FileSaver.saveMarkdownFile: its arguments, whether the
\*   window has showSaveFilePicker, the await it is at, and what it has done
\* config: the ConfigManager's settings object and the DEFAULT_SETTINGS
\*   object of its module
\* storage: the values the userscript manager stores for the LLM Judge
\* extractor: the ReadabilityExtractor's cache, the page it looks at and the
\*   calls made on it
\* clipper: a PersonalWebClipper instance, its timers and observers
\* clipping: a call of PersonalWebClipper.clipArticle and the notifications
\*   it has shown
\* player: the YouTube Clean Player on a page: the URL, the timers and the
\*   redirect button
VARIABLES doc, results, contrib, repeated, clip, saver, config, storage,
          extractor, clipper, clipping, player

vars ==
  <<doc, results, contrib, repeated, clip, saver, config, storage,
    extractor, clipper, clipping, player>>

converterVars == <<doc, results, contrib, repeated>>

configVars == <<config, storage>>

pageVars == <<extractor, clipper, clipping, player>>

(***************************************************************************)
(* Strings                                                                 *)
(***************************************************************************)

\* Node.TEXT_NODE and Node.ELEMENT_NODE
TEXT_NODE == 3
ELEMENT_NODE == 1

\* The characters String.prototype.trim removes, among those of the model.
WhiteSpace == {" ", "\t", "\n", "\r"}

\* The characters before which $ matches under the m flag.
LineTerminators == {"\n", "\r"}

Null == <<>>

Some(v) == <<v>>

Take(s, n) == SubSeq(s, 1, n)

Drop(s, n) == SubSeq(s, n + 1, Len(s))

RECURSIVE Concat(_)
\* The concatenation of a sequence of strings (result += ...).
Concat(ss) == IF ss = <<>> THEN <<>> ELSE Head(ss) \o Concat(Tail(ss))

RECURSIVE RunLen(_, _)
\* The length of the longest prefix of s made of characters of cs.
RunLen(s, cs) ==
  IF s = <<>> \/ Head(s) \notin cs THEN 0 ELSE 1 + RunLen(Tail(s), cs)

\* String.prototype.trimStart / trimEnd / trim
TrimStart(s) == Drop(s, RunLen(s, WhiteSpace))

RECURSIVE TrimEnd(_)
TrimEnd(s) ==
  IF s = <<>> \/ s[Len(s)] \notin WhiteSpace THEN s
  ELSE TrimEnd(Take(s, Len(s) - 1))

Trim(s) == TrimEnd(TrimStart(s))

RECURSIVE ReplaceAll(_, _, _)
\* s.replace(/c/g, r) for a one-character pattern c
ReplaceAll(s, c, r) ==
  IF s = <<>> THEN <<>>
  ELSE (IF Head(s) = c THEN r ELSE <<Head(s)>>) \o ReplaceAll(Tail(s), c, r)

\* s.startsWith(p)
StartsWith(s, p) == Len(s) >= Len(p) /\ Take(s, Len(p)) = p

RECURSIVE Split(_, _)
\* s.split(c): the pieces between the occurrences of c (at least one piece)
Split(s, c) ==
  LET n == RunLen(s, {x \in {s[i] : i \in 1..Len(s)} : x # c})
  IN  IF n = Len(s) THEN <<s>>
      ELSE <<Take(s, n)>> \o Split(Drop(s, n + 1), c)

RECURSIVE Join(_, _)
\* ss.join(sep)
Join(ss, sep) ==
  IF ss = <<>> THEN <<>>
  ELSE IF Len(ss) = 1 THEN ss[1]
  ELSE ss[1] \o sep \o Join(Tail(ss), sep)

\* ss.filter(Boolean): the non-empty strings of ss, in order
FilterNonEmpty(ss) == SelectSeq(ss, LAMBDA x : x # <<>>)

Digits == <<"0", "1", "2", "3", "4", "5", "6", "7", "8", "9">>

RECURSIVE NumberToString(_)
\* the template-literal rendering ${n} of an integer n >= 0
NumberToString(n) ==
  IF n < 10 THEN <<Digits[n + 1]>>
  ELSE NumberToString(n \div 10) \o <<Digits[(n % 10) + 1]>>

UpperCase == <<"A", "B", "C", "D", "E", "F", "G", "H", "I", "J", "K", "L", "M",
               "N", "O", "P", "Q", "R", "S", "T", "U", "V", "W", "X", "Y", "Z">>

LowerCase == <<"a", "b", "c", "d", "e", "f", "g", "h", "i", "j", "k", "l", "m",
               "n", "o", "p", "q", "r", "s", "t", "u", "v", "w", "x", "y", "z">>

\* String.prototype.toLowerCase, character by character
ToLowerCase(s) ==
  [i \in 1..Len(s) |->
     IF \E k \in 1..26 : UpperCase[k] = s[i]
     THEN LowerCase[CHOOSE k \in 1..26 : UpperCase[k] = s[i]]
     ELSE s[i]]

(***************************************************************************)
(* DOM nodes                                                               *)
(***************************************************************************)

NoAttributes == [a \in {} |-> <<>>]

TextNode(text) == [nodeType |-> TEXT_NODE, data |-> text]

\* A node that is neither text nor element: a comment (nodeType 8)
CommentNode(text) == [nodeType |-> 8, data |-> text]

ElementNode(tag, attrs, kids) ==
  [nodeType |-> ELEMENT_NODE, tagName |-> tag, attributes |-> attrs,
   childNodes |-> kids]

\* element.getAttribute(name): null when the attribute is absent
GetAttribute(element, name) ==
  IF name \in DOMAIN element.attributes
  THEN Some(element.attributes[name]) ELSE Null

\* element.children: the child nodes that are elements
Children(element) ==
  SelectSeq(element.childNodes, LAMBDA c : c.nodeType = ELEMENT_NODE)

RECURSIVE TextContent(_)
\* node.textContent: the data of a text or comment node; for an element the
\* data of its descendant text nodes, in document order
TextContent(node) ==
  IF node.nodeType = ELEMENT_NODE
  THEN Concat([i \in 1..Len(node.childNodes) |->
                 IF node.childNodes[i].nodeType \notin {TEXT_NODE, ELEMENT_NODE}
                 THEN <<>>
                 ELSE TextContent(node.childNodes[i])])
  ELSE node.data

(***************************************************************************)
(* MarkdownConverter                                                       *)
(***************************************************************************)

\* escapeMarkdown with the backslash replaced last instead of first
EscapeMarkdown_BackslashLast(text) ==
  LET r2 == ReplaceAll(text, "*", <<"\\", "*">>)
      r3 == ReplaceAll(r2, "_", <<"\\", "_">>)
      r4 == ReplaceAll(r3, "[", <<"\\", "[">>)
      r5 == ReplaceAll(r4, "]", <<"\\", "]">>)
      r6 == ReplaceAll(r5, "(", <<"\\", "(">>)
      r7 == ReplaceAll(r6, ")", <<"\\", ")">>)
      r8 == ReplaceAll(r7, "#", <<"\\", "#">>)
      r9 == ReplaceAll(r8, "+", <<"\\", "+">>)
      r10 == ReplaceAll(r9, "!", <<"\\", "!">>)
  IN  ReplaceAll(r10, "\\", <<"\\", "\\">>)

\* Escape special Markdown characters in text: ten replace calls, in order.
EscapeMarkdown(text) ==
  LET r1 == ReplaceAll(text, "\\", <<"\\", "\\">>)
      r2 == ReplaceAll(r1, "*", <<"\\", "*">>)
      r3 == ReplaceAll(r2, "_", <<"\\", "_">>)
      r4 == ReplaceAll(r3, "[", <<"\\", "[">>)
      r5 == ReplaceAll(r4, "]", <<"\\", "]">>)
      r6 == ReplaceAll(r5, "(", <<"\\", "(">>)
      r7 == ReplaceAll(r6, ")", <<"\\", ")">>)
      r8 == ReplaceAll(r7, "#", <<"\\", "#">>)
      r9 == ReplaceAll(r8, "+", <<"\\", "+">>)
  IN  ReplaceAll(r9, "!", <<"\\", "!">>)

RECURSIVE CollapseNewlines(_)
\* markdown.replace(/\n{3,}/g, '\n\n'): each maximal run of three or more
\* newlines, found from the left, becomes two
CollapseNewlines(s) ==
  IF s = <<>> THEN <<>>
  ELSE IF Head(s) = "\n"
       THEN LET n == RunLen(s, {"\n"})
            IN  (IF n >= 3 THEN <<"\n", "\n">> ELSE Take(s, n))
                  \o CollapseNewlines(Drop(s, n))
       ELSE <<Head(s)>> \o CollapseNewlines(Tail(s))

RECURSIVE StripTrailingSpaces(_)

\* The replace without the m flag: only the spaces that end the string go
StripTrailingSpaces_EndOnly(s) ==
  IF s = <<>> \/ s[Len(s)] # " " THEN s
  ELSE StripTrailingSpaces(Take(s, Len(s) - 1))

\* markdown.replace(/ +$/gm, ''): each run of spaces that reaches the end of
\* its line (or of the string) is removed
StripTrailingSpaces(s) ==
  IF s = <<>> THEN <<>>
  ELSE IF Head(s) = " "
       THEN LET n == RunLen(s, {" "})
                rest == Drop(s, n)
            IN  (IF rest = <<>> \/ Head(rest) \in LineTerminators
                 THEN <<>> ELSE Take(s, n))
                  \o StripTrailingSpaces(rest)
       ELSE <<Head(s)>> \o StripTrailingSpaces(Tail(s))

\* cleanupMarkdown without its final trim
CleanupMarkdown_NoTrim(markdown) ==
  StripTrailingSpaces(CollapseNewlines(markdown))

\* Clean up the final Markdown
CleanupMarkdown(markdown) ==
  Trim(StripTrailingSpaces(CollapseNewlines(markdown)))

\* The tag names the converter special-cases
Tag_code == <<"c", "o", "d", "e">>
Tag_pre == <<"p", "r", "e">>
Tag_ul == <<"u", "l">>
Tag_ol == <<"o", "l">>
Tag_a == <<"a">>
Tag_img == <<"i", "m", "g">>
Tag_br == <<"b", "r">>
Tag_hr == <<"h", "r">>
Tag_h1 == <<"h", "1">>
Tag_h2 == <<"h", "2">>
Tag_h3 == <<"h", "3">>
Tag_h4 == <<"h", "4">>
Tag_h5 == <<"h", "5">>
Tag_h6 == <<"h", "6">>
Tag_blockquote == <<"b", "l", "o", "c", "k", "q", "u", "o", "t", "e">>
Tag_p == <<"p">>
Tag_strong == <<"s", "t", "r", "o", "n", "g">>
Tag_b == <<"b">>
Tag_em == <<"e", "m">>
Tag_i == <<"i">>
Tag_li == <<"l", "i">>

Str_http == <<"h", "t", "t", "p">>
Str_Image == <<"I", "m", "a", "g", "e">>
\* SANY's lexer rejects a backtick inside a string literal: the backtick
\* character is written as the token "BACKTICK".
Backtick == "BACKTICK"
Fence == <<Backtick, Backtick, Backtick>>

\* wrapWithElementFormatting with the heading level ignored: one '#' for
\* every heading
WrapWithElementFormatting_FlatHeading(content, tagName) ==
  LET trimmedContent == Trim(content)
  IN  IF trimmedContent = <<>> THEN <<>>
      ELSE CASE tagName \in {Tag_h1, Tag_h2, Tag_h3, Tag_h4, Tag_h5, Tag_h6} ->
                  <<"\n", "#", " ">> \o trimmedContent \o <<"\n", "\n">>
             [] tagName = Tag_blockquote ->
                  LET lines == FilterNonEmpty(Split(trimmedContent, "\n"))
                      quoted == [j \in 1..Len(lines) |-> <<">", " ">> \o lines[j]]
                  IN  <<"\n">> \o Join(quoted, <<"\n">>) \o <<"\n", "\n">>
             [] tagName = Tag_p -> <<"\n">> \o trimmedContent \o <<"\n", "\n">>
             [] tagName \in {Tag_strong, Tag_b} ->
                  <<"*", "*">> \o trimmedContent \o <<"*", "*">>
             [] tagName \in {Tag_em, Tag_i} ->
                  <<"*">> \o trimmedContent \o <<"*">>
             [] tagName = Tag_li -> <<>>
             [] OTHER -> content

\* wrapWithElementFormatting without its test for empty trimmed content
WrapWithElementFormatting_NoEmptyCheck(content, tagName) ==
  LET trimmedContent == Trim(content)
      Heading(k) == <<"\n">> \o [j \in 1..k |-> "#"] \o <<" ">>
                      \o trimmedContent \o <<"\n", "\n">>
  IN  CASE tagName = Tag_h1 -> Heading(1)
        [] tagName = Tag_h2 -> Heading(2)
        [] tagName = Tag_h3 -> Heading(3)
        [] tagName = Tag_h4 -> Heading(4)
        [] tagName = Tag_h5 -> Heading(5)
        [] tagName = Tag_h6 -> Heading(6)
        [] tagName = Tag_blockquote ->
             LET lines == FilterNonEmpty(Split(trimmedContent, "\n"))
                 quoted == [j \in 1..Len(lines) |-> <<">", " ">> \o lines[j]]
             IN  <<"\n">> \o Join(quoted, <<"\n">>) \o <<"\n", "\n">>
        [] tagName = Tag_p -> <<"\n">> \o trimmedContent \o <<"\n", "\n">>
        [] tagName \in {Tag_strong, Tag_b} ->
             <<"*", "*">> \o trimmedContent \o <<"*", "*">>
        [] tagName \in {Tag_em, Tag_i} ->
             <<"*">> \o trimmedContent \o <<"*">>
        [] tagName = Tag_li -> <<>>
        [] OTHER -> content

\* wrapWithElementFormatting without the case 'li': an li falls to the default
WrapWithElementFormatting_NoLiCase(content, tagName) ==
  LET trimmedContent == Trim(content)
      Heading(k) == <<"\n">> \o [j \in 1..k |-> "#"] \o <<" ">>
                      \o trimmedContent \o <<"\n", "\n">>
  IN  IF trimmedContent = <<>> THEN <<>>
      ELSE CASE tagName = Tag_h1 -> Heading(1)
             [] tagName = Tag_h2 -> Heading(2)
             [] tagName = Tag_h3 -> Heading(3)
             [] tagName = Tag_h4 -> Heading(4)
             [] tagName = Tag_h5 -> Heading(5)
             [] tagName = Tag_h6 -> Heading(6)
             [] tagName = Tag_blockquote ->
                  LET lines == FilterNonEmpty(Split(trimmedContent, "\n"))
                      quoted == [j \in 1..Len(lines) |-> <<">", " ">> \o lines[j]]
                  IN  <<"\n">> \o Join(quoted, <<"\n">>) \o <<"\n", "\n">>
             [] tagName = Tag_p -> <<"\n">> \o trimmedContent \o <<"\n", "\n">>
             [] tagName \in {Tag_strong, Tag_b} ->
                  <<"*", "*">> \o trimmedContent \o <<"*", "*">>
             [] tagName \in {Tag_em, Tag_i} ->
                  <<"*">> \o trimmedContent \o <<"*">>
             [] OTHER -> content

\* Wrap processed content with element-specific formatting
\* wrapWithElementFormatting keeping the empty lines of a blockquote
WrapWithElementFormatting_KeepEmptyLines(content, tagName) ==
  LET trimmedContent == Trim(content)
      Heading(k) == <<"\n">> \o [j \in 1..k |-> "#"] \o <<" ">>
                      \o trimmedContent \o <<"\n", "\n">>
  IN  IF trimmedContent = <<>> THEN <<>>
      ELSE CASE tagName = Tag_h1 -> Heading(1)
             [] tagName = Tag_h2 -> Heading(2)
             [] tagName = Tag_h3 -> Heading(3)
             [] tagName = Tag_h4 -> Heading(4)
             [] tagName = Tag_h5 -> Heading(5)
             [] tagName = Tag_h6 -> Heading(6)
             [] tagName = Tag_blockquote ->
                  LET lines == Split(trimmedContent, "\n")
                      quoted == [j \in 1..Len(lines) |-> <<">", " ">> \o lines[j]]
                  IN  <<"\n">> \o Join(quoted, <<"\n">>) \o <<"\n", "\n">>
             [] tagName = Tag_p -> <<"\n">> \o trimmedContent \o <<"\n", "\n">>
             [] tagName \in {Tag_strong, Tag_b} ->
                  <<"*", "*">> \o trimmedContent \o <<"*", "*">>
             [] tagName \in {Tag_em, Tag_i} ->
                  <<"*">> \o trimmedContent \o <<"*">>
             [] tagName = Tag_li -> <<>>
             [] OTHER -> content

WrapWithElementFormatting(content, tagName) ==
  LET trimmedContent == Trim(content)
      Heading(k) == <<"\n">> \o [j \in 1..k |-> "#"] \o <<" ">>
                      \o trimmedContent \o <<"\n", "\n">>
  IN  IF trimmedContent = <<>> THEN <<>>
      ELSE CASE tagName = Tag_h1 -> Heading(1)
             [] tagName = Tag_h2 -> Heading(2)
             [] tagName = Tag_h3 -> Heading(3)
             [] tagName = Tag_h4 -> Heading(4)
             [] tagName = Tag_h5 -> Heading(5)
             [] tagName = Tag_h6 -> Heading(6)
             [] tagName = Tag_blockquote ->
                  LET lines == FilterNonEmpty(Split(trimmedContent, "\n"))
                      quoted == [j \in 1..Len(lines) |-> <<">", " ">> \o lines[j]]
                  IN  <<"\n">> \o Join(quoted, <<"\n">>) \o <<"\n", "\n">>
             [] tagName = Tag_p -> <<"\n">> \o trimmedContent \o <<"\n", "\n">>
             [] tagName \in {Tag_strong, Tag_b} ->
                  <<"*", "*">> \o trimmedContent \o <<"*", "*">>
             [] tagName \in {Tag_em, Tag_i} ->
                  <<"*">> \o trimmedContent \o <<"*">>
             [] tagName = Tag_li -> <<>>
             [] OTHER -> content

RECURSIVE ProcessNode(_)
RECURSIVE ConvertListItems(_, _, _)

\* The loop with itemIndex incremented for every child, li or not
ConvertListItems_CountAll(items, itemIndex, ordered) ==
  IF items = <<>> THEN <<>>
  ELSE LET item == Head(items)
       IN  IF ToLowerCase(item.tagName) = Tag_li
           THEN LET prefix == IF ordered
                              THEN NumberToString(itemIndex) \o <<".", " ">>
                              ELSE <<"-", " ">>
                    itemContent ==
                      Concat([j \in 1..Len(item.childNodes) |->
                                ProcessNode(item.childNodes[j])])
                    processedContent ==
                      ReplaceAll(Trim(itemContent), "\n", <<"\n", " ", " ">>)
                IN  prefix \o processedContent \o <<"\n">>
                      \o ConvertListItems(Tail(items), itemIndex + 1, ordered)
           ELSE ConvertListItems(Tail(items), itemIndex + 1, ordered)

\* The loop without the re-indenting of the newlines in an item
ConvertListItems_NoIndent(items, itemIndex, ordered) ==
  IF items = <<>> THEN <<>>
  ELSE LET item == Head(items)
       IN  IF ToLowerCase(item.tagName) = Tag_li
           THEN LET prefix == IF ordered
                              THEN NumberToString(itemIndex) \o <<".", " ">>
                              ELSE <<"-", " ">>
                    itemContent ==
                      Concat([j \in 1..Len(item.childNodes) |->
                                ProcessNode(item.childNodes[j])])
                IN  prefix \o Trim(itemContent) \o <<"\n">>
                      \o ConvertListItems(Tail(items), itemIndex + 1, ordered)
           ELSE ConvertListItems(Tail(items), itemIndex, ordered)

\* The loop of convertList over listElement.children from itemIndex on: the
\* lines of the li children, other children skipped without counting
ConvertListItems(items, itemIndex, ordered) ==
  IF items = <<>> THEN <<>>
  ELSE LET item == Head(items)
       IN  IF ToLowerCase(item.tagName) = Tag_li
           THEN LET prefix == IF ordered
                              THEN NumberToString(itemIndex) \o <<".", " ">>
                              ELSE <<"-", " ">>
                    itemContent ==
                      Concat([j \in 1..Len(item.childNodes) |->
                                ProcessNode(item.childNodes[j])])
                    processedContent ==
                      ReplaceAll(Trim(itemContent), "\n", <<"\n", " ", " ">>)
                IN  prefix \o processedContent \o <<"\n">>
                      \o ConvertListItems(Tail(items), itemIndex + 1, ordered)
           ELSE ConvertListItems(Tail(items), itemIndex, ordered)

\* convertList looking one level below the children that are not li
ConvertList_Grandchildren(listElement, ordered) ==
  LET children == Children(listElement)
      items == Concat([j \in 1..Len(children) |->
                         IF ToLowerCase(children[j].tagName) = Tag_li
                         THEN <<children[j]>> ELSE Children(children[j])])
  IN  <<"\n">> \o ConvertListItems(items, 1, ordered) \o <<"\n">>

\* Convert lists to Markdown
ConvertList(listElement, ordered) ==
  <<"\n">> \o ConvertListItems(Children(listElement), 1, ordered) \o <<"\n">>

\* case 'a' with the href check dropped: any href makes a link
ConvertLink_AnyHref(text, href) ==
  IF href # Null /\ href[1] # <<>>
  THEN Some(<<"[">> \o text \o <<"]", "(">> \o href[1] \o <<")">>)
  ELSE Some(text)

\* case 'a' of getDirectConversion: href is getAttribute('href'), null or a
\* string
ConvertLink(text, href) ==
  IF href # Null /\ href[1] # <<>> /\ StartsWith(href[1], Str_http)
  THEN Some(<<"[">> \o text \o <<"]", "(">> \o href[1] \o <<")">>)
  ELSE Some(text)

\* case 'img' without the fallback text: a missing alt gives an empty one
ConvertImage_NoFallback(src, altAttr) ==
  LET alt == IF altAttr # Null THEN altAttr[1] ELSE <<>>
  IN  IF src # Null /\ src[1] # <<>>
      THEN Some(<<"!", "[">> \o alt \o <<"]", "(">> \o src[1] \o <<")">>)
      ELSE Some(<<>>)

\* case 'img' of getDirectConversion: src and altAttr are getAttribute('src')
\* and getAttribute('alt')
ConvertImage(src, altAttr) ==
  LET alt == IF altAttr # Null /\ altAttr[1] # <<>> THEN altAttr[1]
             ELSE Str_Image
  IN  IF src # Null /\ src[1] # <<>>
      THEN Some(<<"!", "[">> \o alt \o <<"]", "(">> \o src[1] \o <<")">>)
      ELSE Some(<<>>)

\* Get direct conversion for elements that should be processed as a whole;
\* null lets recursive processing handle the element
GetDirectConversion(element, tagName) ==
  LET text == Trim(TextContent(element))
  IN  CASE tagName = Tag_code -> Some(<<Backtick>> \o text \o <<Backtick>>)
        [] tagName = Tag_pre ->
             Some(<<"\n">> \o Fence \o <<"\n">> \o text \o <<"\n">> \o Fence
                    \o <<"\n", "\n">>)
        [] tagName = Tag_ul -> Some(ConvertList(element, FALSE))
        [] tagName = Tag_ol -> Some(ConvertList(element, TRUE))
        [] tagName = Tag_a -> ConvertLink(text, GetAttribute(element, "href"))
        [] tagName = Tag_img ->
             ConvertImage(GetAttribute(element, "src"),
                          GetAttribute(element, "alt"))
        [] tagName = Tag_br -> Some(<<"\n">>)
        [] tagName = Tag_hr -> Some(<<"\n", "-", "-", "-", "\n", "\n">>)
        [] OTHER -> Null

\* processNode without its final return: undefined for a node that is
\* neither text nor element
ProcessNode_NoFallback(node) ==
  IF node.nodeType = TEXT_NODE THEN EscapeMarkdown(node.data)
  ELSE IF node.nodeType = ELEMENT_NODE
       THEN LET tagName == ToLowerCase(node.tagName)
                directConversion == GetDirectConversion(node, tagName)
            IN  IF directConversion # Null THEN directConversion[1]
                ELSE WrapWithElementFormatting(
                       Concat([i \in 1..Len(node.childNodes) |->
                                 ProcessNode(node.childNodes[i])]),
                       tagName)
       ELSE <<"undefined">>

\* Recursively process a node and its children
ProcessNode(node) ==
  IF node.nodeType = TEXT_NODE THEN EscapeMarkdown(node.data)
  ELSE IF node.nodeType = ELEMENT_NODE
       THEN LET tagName == ToLowerCase(node.tagName)
                directConversion == GetDirectConversion(node, tagName)
            IN  IF directConversion # Null THEN directConversion[1]
                ELSE WrapWithElementFormatting(
                       Concat([i \in 1..Len(node.childNodes) |->
                                 ProcessNode(node.childNodes[i])]),
                       tagName)
       ELSE <<>>

\* Convert HTML element to Markdown using recursive approach
HtmlToMarkdown(element) == CleanupMarkdown(ProcessNode(element))

(***************************************************************************)
(* The documents the converter is applied to                               *)
(***************************************************************************)

\* Bounds of the documents
MaxTextLen == 2
MaxPlainLen == 5
MaxKids == 2
MaxItems == 3
MaxLinkKids == 2
MaxDepth == 3

\* The strings over chars of length at most n
StringsUpTo(chars, n) == UNION {[1..k -> chars] : k \in 0..n}

\* The ten characters escapeMarkdown escapes
MetaChars == {"\\", "*", "_", "[", "]", "(", ")", "#", "+", "!"}

TextChars == MetaChars \cup {"a", " ", Backtick}

PlainChars == {"a", " ", "\n", "\t", "\r"}

Tag_div == <<"d", "i", "v">>
Tag_span == <<"s", "p", "a", "n">>
Tag_DIV == <<"D", "I", "V">>
Tag_LI == <<"L", "I">>
Tag_A == <<"A">>
Tag_UL == <<"U", "L">>
Tag_H2 == <<"H", "2">>

T_a == TextNode(<<"a">>)
T_sp == TextNode(<<" ">>)

El(tag, kids) == ElementNode(tag, NoAttributes, kids)

Href_https == <<"h", "t", "t", "p", "s", ":", "/", "/", "x">>
Href_http == <<"h", "t", "t", "p">>
Href_relative == <<"/", "r">>
Href_HTTP == <<"H", "T", "T", "P", ":", "/", "/", "x">>
Href_mailto == <<"m", ":", "h", "t", "t", "p">>

\* The attribute maps of the a elements: no href, an empty one, absolute,
\* relative and other hrefs
LinkAttributes ==
  {NoAttributes} \cup
  {[href |-> h] : h \in {<<>>, Href_https, Href_http, Href_relative,
                         Href_HTTP, Href_mailto}}

\* Single text nodes
TextDocs ==
  {TextNode(t) : t \in StringsUpTo(TextChars, MaxTextLen)
                        \cup StringsUpTo(PlainChars, MaxPlainLen)}

\* The children of the container documents
GenKids ==
  { T_a, T_sp, TextNode(<<" ", "\n", "a">>), CommentNode(<<"a">>),
    El(Tag_span, <<T_sp>>), El(Tag_p, <<T_a>>), El(Tag_li, <<T_a>>),
    El(Tag_pre, <<TextNode(<<"a", "\n">> \o Fence)>>),
    El(Tag_br, <<>>),
    ElementNode(Tag_a, [href |-> Href_https], <<TextNode(<<"a", "]">>)>>) }

RootTags ==
  { Tag_div, Tag_DIV, Tag_span, Tag_p, Tag_h1, Tag_H2, Tag_h6, Tag_blockquote, Tag_strong, Tag_b, Tag_em, Tag_i, Tag_li, Tag_ul,
    Tag_ol, Tag_a, Tag_code, Tag_pre, Tag_img, Tag_br, Tag_hr }

\* An element of any tag over at most MaxKids children
ContainerDocs ==
  {El(tag, kids) : tag \in RootTags,
                   kids \in UNION {[1..k -> GenKids] : k \in 0..MaxKids}}

\* The children of the list documents: items, items to be skipped, text
ListKids ==
  { El(Tag_li, <<T_a>>), El(Tag_LI, <<TextNode(<<" ", "*", " ">>)>>),
    El(Tag_li, <<El(Tag_b, <<T_a>>), TextNode(<<" ", "a">>)>>),
    El(Tag_li, <<>>), El(Tag_li, <<TextNode(<<"a", "\n", "a">>)>>),
    El(Tag_li, <<El(Tag_ol, <<El(Tag_li, <<T_a>>)>>)>>),
    El(Tag_div, <<T_a>>), T_a }

ListDocs ==
  {El(tag, kids) : tag \in {Tag_ol, Tag_UL},
                   kids \in UNION {[1..k -> ListKids] : k \in 0..MaxItems}}

LinkKids ==
  { TextNode(<<" ", "a", " ">>), TextNode(<<"]">>), T_sp,
    El(Tag_b, <<T_a>>), CommentNode(<<"a">>) }

LinkDocs ==
  {ElementNode(tag, attrs, kids) :
     tag \in {Tag_a, Tag_A}, attrs \in LinkAttributes,
     kids \in UNION {[1..k -> LinkKids] : k \in 0..MaxLinkKids}}

RECURSIVE Chain(_, _)
\* The elements of the given tags nested in one another around a leaf
Chain(tags, leaf) ==
  IF tags = <<>> THEN leaf ELSE El(Head(tags), <<Chain(Tail(tags), leaf)>>)

ChainTags == {Tag_div, Tag_p, Tag_blockquote, Tag_ul, Tag_li, Tag_b}

DeepDocs ==
  {Chain(tags, leaf) : tags \in UNION {[1..k -> ChainTags] : k \in 1..MaxDepth},
                       leaf \in {T_a, T_sp}}

Tag_H3 == <<"H", "3">>

\* Headings of the levels the container documents leave out, over text to be
\* trimmed and inline markup
HeadingKids ==
  { T_a, T_sp, TextNode(<<"\n", "a", " ">>), El(Tag_em, <<T_a>>) }

HeadingDocs ==
  {El(tag, kids) : tag \in {Tag_H3, Tag_h3, Tag_h4, Tag_h5},
                   kids \in UNION {[1..k -> HeadingKids] : k \in 0..2}}

Tag_IMG == <<"I", "M", "G">>

Src_path == <<"/", "s">>
Alt_text == <<"a", "]">>

\* The attribute maps of the img elements: src and alt each absent, empty or
\* with a value
ImageAttributes ==
  {[name \in names |-> IF name = "src" THEN src ELSE alt] :
     names \in SUBSET {"src", "alt"},
     src \in {<<>>, Src_path}, alt \in {<<>>, Alt_text}}

Images ==
  {ElementNode(tag, attrs, <<>>) :
     tag \in {Tag_img, Tag_IMG}, attrs \in ImageAttributes}

\* Images alone and after text in a container
ImageDocs == Images \cup {El(Tag_div, <<T_a, image>>) : image \in Images}

\* An li with an upper-case tag outside any list
StrayItemDocs ==
  { El(Tag_LI, <<T_a>>),
    El(Tag_div, <<El(Tag_LI, <<T_a, El(Tag_p, <<T_a>>)>>), T_a>>) }

\* Lists with an li below a child that is not an li, between items
NestedItemDocs ==
  {El(tag, <<El(Tag_li, <<T_a>>), T_a,
             El(Tag_div, <<El(Tag_li, <<T_a>>)>>),
             El(Tag_li, <<TextNode(<<"a", "\n", "a">>)>>)>>) :
     tag \in {Tag_ul, Tag_ol}}

T_b == TextNode(<<"b">>)
T_c == TextNode(<<"c">>)
T_d == TextNode(<<"d">>)

Li(kids) == El(Tag_li, kids)

\* Lists nested in the items of lists, one and two levels deep, after text
\* in their item and as the first thing in it
NestedListDocs ==
  { El(Tag_ul, <<Li(<<T_a, El(Tag_ul, <<Li(<<T_b>>), Li(<<T_c>>)>>)>>)>>),
    El(Tag_ul, <<Li(<<El(Tag_ul, <<Li(<<T_b>>), Li(<<T_c>>)>>)>>),
                 Li(<<T_d>>)>>),
    El(Tag_ol, <<Li(<<T_a, El(Tag_ol,
                             <<Li(<<T_b, El(Tag_ul, <<Li(<<T_c>>)>>)>>),
                               Li(<<T_d>>)>>)>>)>>),
    El(Tag_ul, <<Li(<<T_sp,
                      El(Tag_ul, <<Li(<<El(Tag_ol, <<Li(<<T_b>>),
                                                      Li(<<T_c>>)>>)>>),
                                   Li(<<TextNode(<<"d", "\n", "a">>)>>)>>),
                      T_a>>)>>) }

\* Blockquotes over paragraphs, text with a whitespace-only line and a nested
\* blockquote of two paragraphs
QuoteKids ==
  { El(Tag_p, <<T_a>>),
    El(Tag_blockquote, <<El(Tag_p, <<T_b>>), El(Tag_p, <<T_c>>)>>),
    TextNode(<<" ", "a", "\n", " ", "\n", "d", " ">>) }

QuoteDocs ==
  {El(Tag_blockquote, <<k1>>) : k1 \in QuoteKids}
    \cup {El(Tag_blockquote, <<k1, k2>>) : k1 \in QuoteKids, k2 \in QuoteKids}

Docs ==
  TextDocs \cup ContainerDocs \cup ListDocs \cup LinkDocs \cup DeepDocs
    \cup HeadingDocs \cup ImageDocs \cup StrayItemDocs \cup NestedItemDocs
    \cup NestedListDocs \cup QuoteDocs

(***************************************************************************)
(* Calls of the converter                                                  *)
(***************************************************************************)

RECURSIVE NodeAt(_, _)
\* The node a path of child indices leads to
NodeAt(node, path) ==
  IF path = <<>> THEN node
  ELSE NodeAt(node.childNodes[Head(path)], Tail(path))

\* The nodes a caller hands to htmlToMarkdown: the document and its first child
Targets(d) ==
  {<<>>} \cup
  (IF d.nodeType = ELEMENT_NODE /\ d.childNodes # <<>> THEN {<<1>>} ELSE {})

RECURSIVE Visited(_, _)
\* The paths of the nodes processNode is called on in processNode(node), node
\* being at path: the node, and what the recursion of processNode and
\* convertList reaches below it
Visited(node, path) ==
  {path} \cup
  IF node.nodeType # ELEMENT_NODE THEN {}
  ELSE LET tagName == ToLowerCase(node.tagName)
           kids == node.childNodes
       IN  IF tagName \in {Tag_ul, Tag_ol}
           THEN UNION {
                  IF kids[i].nodeType = ELEMENT_NODE
                     /\ ToLowerCase(kids[i].tagName) = Tag_li
                  THEN UNION { Visited(kids[i].childNodes[j], path \o <<i, j>>)
                               : j \in 1..Len(kids[i].childNodes) }
                  ELSE {}
                  : i \in 1..Len(kids) }
           ELSE IF GetDirectConversion(node, tagName) # Null THEN {}
           ELSE UNION { Visited(kids[i], path \o <<i>>) : i \in 1..Len(kids) }

Init ==
  /\ doc \in Docs
  /\ results = <<>>
  /\ contrib = <<>>
  /\ repeated = FALSE
  /\ clip = Null
  /\ saver = Null
  /\ config = Null
  /\ storage = Null
  /\ extractor = Null
  /\ clipper = Null
  /\ clipping = Null
  /\ player = Null

\* A call that trims the text of a text-node document in place
Convert_TrimInPlace(target) ==
  /\ repeated' = (repeated \/ target \in DOMAIN results)
  /\ results' = (target :> HtmlToMarkdown(NodeAt(doc, target))) @@ results
  /\ contrib' = [p \in Visited(NodeAt(doc, target), target)
                   |-> ProcessNode(NodeAt(doc, p))] @@ contrib
  /\ doc' = IF doc.nodeType = TEXT_NODE THEN TextNode(Trim(doc.data)) ELSE doc
  /\ UNCHANGED <<clip, saver, configVars, pageVars>>

\* One call htmlToMarkdown(target): results records what it returned, contrib
\* what each call of processNode made during it returned; the document is
\* only read
Convert(target) ==
  /\ repeated' = (repeated \/ target \in DOMAIN results)
  /\ results' = (target :> HtmlToMarkdown(NodeAt(doc, target))) @@ results
  /\ contrib' = [p \in Visited(NodeAt(doc, target), target)
                   |-> ProcessNode(NodeAt(doc, p))] @@ contrib
  /\ UNCHANGED <<doc, clip, saver, configVars, pageVars>>

Next == \E target \in Targets(doc) : Convert(target)

Spec == Init /\ [][Next]_vars

(***************************************************************************)
(* createMarkdownDocument                                                  *)
(***************************************************************************)

Str_rule == <<"-", "-", "-">>
Str_titleKey == <<"t", "i", "t", "l", "e", ":", " ", "\"">>
Str_urlKey == <<"u", "r", "l", ":", " ", "\"">>
Str_clippedKey == <<"c", "l", "i", "p", "p", "e", "d", ":", " ", "\"">>
Str_sourceLine ==
  <<"s", "o", "u", "r", "c", "e", ":", " ", "\"", "P", "e", "r", "s", "o", "n", "a", "l", " ", "W", "e", "b", " ", "C", "l", "i", "p", "p", "e", "r", "\"">>
Str_sourceLabel == <<"*", "*", "S", "o", "u", "r", "c", "e", ":", "*", "*", " ", "[">>
Str_clippedLabel == <<"*", "*", "C", "l", "i", "p", "p", "e", "d", ":", "*", "*", " ">>
Str_InvalidDate == <<"I", "n", "v", "a", "l", "i", "d", " ", "D", "a", "t", "e">>

\* new Date(timestamp) is a valid date: of the date strings the model knows
\* the four-digit year, which Date reads as the first instant of that year
IsValidDate(timestamp) ==
  Len(timestamp) = 4 /\ \A i \in 1..4 : timestamp[i] \in {Digits[j] : j \in 1..Len(Digits)}

\* new Date(timestamp).toLocaleString(): "Invalid Date" for an invalid date,
\* else a rendering that depends on the locale of the host: en-US and en-GB
\* in a zone at UTC
ToLocaleString(timestamp) ==
  IF IsValidDate(timestamp)
  THEN { <<"1", "/", "1", "/">> \o timestamp
           \o <<",", " ", "1", "2", ":", "0", "0", ":", "0", "0", " ", "A", "M">>,
         <<"0", "1", "/", "0", "1", "/">> \o timestamp
           \o <<",", " ", "0", "0", ":", "0", "0", ":", "0", "0">> }
  ELSE {Str_InvalidDate}

\* createMarkdownDocument with the title put into the front matter as it is
CreateMarkdownDocument_RawTitle(title, content, url, timestamp, localeString) ==
  LET frontMatter ==
        Str_rule \o <<"\n">>
          \o Str_titleKey \o title \o <<"\"", "\n">>
          \o Str_urlKey \o url \o <<"\"", "\n">>
          \o Str_clippedKey \o timestamp \o <<"\"", "\n">>
          \o Str_sourceLine \o <<"\n">>
          \o Str_rule \o <<"\n", "\n">>
  IN  frontMatter \o <<"#", " ">> \o title \o <<"\n", "\n">> \o content
        \o <<"\n", "\n">> \o Str_rule \o <<"\n", "\n">>
        \o Str_sourceLabel \o url \o <<"]", "(">> \o url \o <<")", " ", " ", "\n">>
        \o Str_clippedLabel \o localeString

\* Create a complete Markdown document with metadata; localeString is what
\* new Date(timestamp).toLocaleString() returns
CreateMarkdownDocument(title, content, url, timestamp, localeString) ==
  LET frontMatter ==
        Str_rule \o <<"\n">>
          \o Str_titleKey \o ReplaceAll(title, "\"", <<"\\", "\"">>)
          \o <<"\"", "\n">>
          \o Str_urlKey \o url \o <<"\"", "\n">>
          \o Str_clippedKey \o timestamp \o <<"\"", "\n">>
          \o Str_sourceLine \o <<"\n">>
          \o Str_rule \o <<"\n", "\n">>
  IN  frontMatter \o <<"#", " ">> \o title \o <<"\n", "\n">> \o content
        \o <<"\n", "\n">> \o Str_rule \o <<"\n", "\n">>
        \o Str_sourceLabel \o url \o <<"]", "(">> \o url \o <<")", " ", " ", "\n">>
        \o Str_clippedLabel \o localeString

\* Bound of the titles
MaxTitleLen == 2

TitleChars == {"a", "\"", "\\", "\n"}

Titles == StringsUpTo(TitleChars, MaxTitleLen)

Contents == {<<>>, <<"a">>, <<"a", "\n", "\n">> \o Str_rule, <<"\"", " ">>}

Urls == {<<>>, <<"u">>, <<"u", ")", "\"">>}

Timestamp_year == <<"2", "0", "2", "5">>

Timestamps == {Timestamp_year, <<"x">>, <<>>}

\* Before a call of createMarkdownDocument: its arguments are chosen
InitDocument ==
  /\ doc = TextNode(<<>>)
  /\ results = <<>>
  /\ contrib = <<>>
  /\ repeated = FALSE
  /\ clip \in [title : Titles, content : Contents, url : Urls,
               timestamp : Timestamps, localeString : {Null},
               markdown : {Null}]
  /\ saver = Null
  /\ config = Null
  /\ storage = Null
  /\ extractor = Null
  /\ clipper = Null
  /\ clipping = Null
  /\ player = Null

\* The call createMarkdownDocument(title, content, url, timestamp)
CreateDocument ==
  /\ clip.markdown = Null
  /\ \E localeString \in ToLocaleString(clip.timestamp) :
       clip' = [clip EXCEPT
                  !.localeString = Some(localeString),
                  !.markdown =
                     Some(CreateMarkdownDocument(clip.title, clip.content,
                                                 clip.url, clip.timestamp,
                                                 localeString))]
  /\ UNCHANGED <<converterVars, saver, configVars, pageVars>>

NextDocument == CreateDocument

SpecDocument == InitDocument /\ [][NextDocument]_vars

(***************************************************************************)
(* FileSaver (src/personal-web-clipper/src/file-saver.ts)                  *)
(***************************************************************************)

\* The characters sanitizeFilename replaces with a dash
InvalidFilenameChars == {"<", ">", ":", "\"", "/", "\\", "|", "?", "*"}

\* The length sanitizeFilename cuts a name to
MaxFilenameLength == 100

RECURSIVE NormalizeWhitespace(_)
\* replace(/\s+/g, ' ')
NormalizeWhitespace(s) ==
  IF s = <<>> THEN <<>>
  ELSE IF Head(s) \in WhiteSpace
       THEN <<" ">> \o NormalizeWhitespace(Drop(s, RunLen(s, WhiteSpace)))
       ELSE <<Head(s)>> \o NormalizeWhitespace(Tail(s))

RECURSIVE RemoveTrailingDots(_)
\* replace(/\.+$/, '')
RemoveTrailingDots(s) ==
  IF s = <<>> \/ s[Len(s)] # "." THEN s
  ELSE RemoveTrailingDots(Take(s, Len(s) - 1))

\* Sanitize filename for cross-platform compatibility
SanitizeFilename(filename) ==
  LET dashed == [i \in 1..Len(filename) |->
                   IF filename[i] \in InvalidFilenameChars THEN "-"
                   ELSE filename[i]]
      trimmed == Trim(RemoveTrailingDots(NormalizeWhitespace(dashed)))
  IN  IF Len(trimmed) > MaxFilenameLength
      THEN Take(trimmed, MaxFilenameLength) ELSE trimmed

Str_md == <<".", "m", "d">>

\* fallbackSave: the download the click on the temporary link starts
FallbackSave(content, suggestedName) ==
  [download |-> SanitizeFilename(suggestedName) \o Str_md, blob |-> content]

\* The awaits of saveMarkdownFile, in order
Awaits == <<"showSaveFilePicker", "createWritable", "write", "close">>

\* The names of the errors an awaited call is rejected with
ErrorNames == {"AbortError", "NotAllowedError", "TypeError"}

\* Bound of the suggested names
MaxNameLen == 2

NameChars == {"a", ".", " ", "/"}

\* Before a call of saveMarkdownFile: its arguments and the window are chosen
InitSaver ==
  /\ doc = TextNode(<<>>)
  /\ results = <<>>
  /\ contrib = <<>>
  /\ repeated = FALSE
  /\ clip = Null
  /\ config = Null
  /\ storage = Null
  /\ extractor = Null
  /\ clipper = Null
  /\ clipping = Null
  /\ player = Null
  /\ saver \in [isSupported : BOOLEAN,
                content : {<<>>, <<"a">>},
                suggestedName : StringsUpTo(NameChars, MaxNameLen),
                pc : {"start"}, picker : {Null}, written : {Null},
                file : {Null}, downloads : {<<>>}, error : {Null},
                result : {Null}]

\* saveMarkdownFile up to its first await: without the File System Access
\* API it downloads and returns false, with it it opens the picker
StartSave(s) ==
  IF ~s.isSupported
  THEN [s EXCEPT
          !.downloads = Append(@, FallbackSave(s.content, s.suggestedName)),
          !.result = Some(FALSE),
          !.pc = "done"]
  ELSE [s EXCEPT
          !.picker = Some(SanitizeFilename(s.suggestedName) \o Str_md),
          !.pc = "showSaveFilePicker"]

\* A call FileSaver.saveMarkdownFile(content, suggestedName)
SaveMarkdownFile ==
  /\ saver.pc = "start"
  /\ saver' = StartSave(saver)
  /\ UNCHANGED <<converterVars, clip, configVars, pageVars>>

\* The awaited call is fulfilled: the handle, the writable, the write, and
\* with the close the file and the return of true
Fulfilled ==
  /\ saver.pc \in {Awaits[i] : i \in 1..Len(Awaits)}
  /\ saver' =
       CASE saver.pc = "showSaveFilePicker" ->
              [saver EXCEPT !.pc = "createWritable"]
         [] saver.pc = "createWritable" -> [saver EXCEPT !.pc = "write"]
         [] saver.pc = "write" ->
              [saver EXCEPT !.written = Some(saver.content), !.pc = "close"]
         [] saver.pc = "close" ->
              [saver EXCEPT
                 !.file = Some([name |-> saver.picker[1],
                                content |-> saver.written[1]]),
                 !.result = Some(TRUE),
                 !.pc = "done"]
  /\ UNCHANGED <<converterVars, clip, configVars, pageVars>>

\* The awaited call is rejected and the catch clause runs: return false for
\* an AbortError, else download and return false
Rejected(name) ==
  /\ saver.pc \in {Awaits[i] : i \in 1..Len(Awaits)}
  /\ saver' =
       IF name = "AbortError"
       THEN [saver EXCEPT
               !.error = Some([name |-> name, at |-> saver.pc]),
               !.result = Some(FALSE),
               !.pc = "done"]
       ELSE [saver EXCEPT
               !.error = Some([name |-> name, at |-> saver.pc]),
               !.downloads = Append(@, FallbackSave(saver.content,
                                                    saver.suggestedName)),
               !.result = Some(FALSE),
               !.pc = "done"]
  /\ UNCHANGED <<converterVars, clip, configVars, pageVars>>

NextSaver ==
  \/ SaveMarkdownFile
  \/ Fulfilled
  \/ \E name \in ErrorNames : Rejected(name)

SpecSaver == InitSaver /\ [][NextSaver]_vars

(***************************************************************************)
(* ConfigManager (src/unnamed/part_001)                                    *)
(*                                                                         *)
(* An object is a function from its property names to their values; the    *)
(* values are strings, the numbers being written as their JSON text.  A    *)
(* JSON text is the set of the <<name, value>> members it holds.  The      *)
(* class initializes its settings field with the DEFAULT_SETTINGS object   *)
(* itself, not a copy: while config.aliased, an assignment to a property   *)
(* of the settings is an assignment to DEFAULT_SETTINGS.                   *)
(***************************************************************************)

Undefined == "undefined"

OPENAI_API_KEY == "llmjudge_openai_key"
ANTHROPIC_API_KEY == "llmjudge_anthropic_key"
SETTINGS == "llmjudge_settings"

\* DEFAULT_SETTINGS as the module defines it
DefaultSettings ==
  [defaultProvider |-> "openai", defaultModel |-> "gpt-4",
   maxTokens |-> "1000", temperature |-> "0.7"]

Model_claude == "claude-3-5-sonnet-20240620"

\* A value in a condition: undefined and the empty string are false
Truthy(value) == value \notin {Undefined, ""}

\* object[name], undefined for a missing property
Get(object, name) ==
  IF name \in DOMAIN object THEN object[name] ELSE Undefined

\* object[name] = value
SetProperty(object, name, value) ==
  [n \in DOMAIN object \cup {name} |->
     IF n = name THEN value ELSE object[n]]

\* delete object[name] for each of the names
DeleteProperties(object, names) ==
  [n \in DOMAIN object \ names |-> object[n]]

\* { ...a, ...b }
Spread(a, b) == b @@ a

\* JSON.stringify(object): a property whose value is undefined is left out
JsonStringify(object) ==
  {<<n, object[n]>> : n \in {m \in DOMAIN object : object[m] # Undefined}}

\* JSON.parse(text)
JsonParse(text) ==
  [n \in {member[1] : member \in text} |->
     (CHOOSE member \in text : member[1] = n)[2]]

\* The text '{}'
EmptyJson == {}

\* GM_getValue(key, defaultValue)
GM_getValue(key, defaultValue) ==
  IF key \in DOMAIN storage THEN storage[key] ELSE defaultValue

\* GM_setValue(key, value) and GM_deleteValue(key) on the stored values
SetValue(stored, key, value) ==
  [k \in DOMAIN stored \cup {key} |-> IF k = key THEN value ELSE stored[k]]

DeleteValue(stored, key) == [k \in DOMAIN stored \ {key} |-> stored[k]]

\* this.settings.name = value
Assign(c, name, value) ==
  [c EXCEPT !.settings = SetProperty(@, name, value),
            !.DEFAULT_SETTINGS =
               IF c.aliased THEN SetProperty(@, name, value) ELSE @]

\* this.settings = a new object
AssignSettings(c, object) ==
  [c EXCEPT !.settings = object, !.aliased = FALSE]

\* this.settings = DEFAULT_SETTINGS
AssignDefaults(c) ==
  [c EXCEPT !.settings = c.DEFAULT_SETTINGS, !.aliased = TRUE]

\* The most calls of the userscript manager in one operation; failAt is the
\* call that throws, 0 for none
MaxGmCalls == 3

\* What an operation leaves: the manager, the stored values, and whether it
\* threw
Outcome(c, stored, threw) ==
  [config |-> c, storage |-> stored, threw |-> threw]

\* loadSettings: the catch clause falls back to DEFAULT_SETTINGS
LoadSettings(c, failAt) ==
  IF failAt \in 1..3 THEN Outcome(AssignDefaults(c), storage, FALSE)
  ELSE LET parsed == JsonParse(GM_getValue(SETTINGS, EmptyJson))
           loaded == Spread(c.DEFAULT_SETTINGS, parsed)
           withOpenai ==
             SetProperty(loaded, "openaiApiKey",
                         GM_getValue(OPENAI_API_KEY, ""))
           withBoth ==
             SetProperty(withOpenai, "anthropicApiKey",
                         GM_getValue(ANTHROPIC_API_KEY, ""))
       IN  Outcome(AssignSettings(c, withBoth), storage, FALSE)

\* saveSettings keeping the API keys in what it saves
SettingsToSave_WithKeys(settings) == settings

\* The copy of the settings saveSettings saves: without the API keys
SettingsToSave(settings) ==
  DeleteProperties(settings, {"openaiApiKey", "anthropicApiKey"})

\* saveSettings on the stored values: fails says that GM_setValue throws
SaveSettingsTo(c, stored, fails) ==
  IF fails THEN Outcome(c, stored, TRUE)
  ELSE Outcome(c,
               SetValue(stored, SETTINGS,
                        JsonStringify(SettingsToSave(c.settings))),
               FALSE)

\* saveApiKeys on the stored values
SaveApiKeysTo(c, stored, openaiKey, anthropicKey, failAt) ==
  LET failOpenai == Truthy(openaiKey) /\ failAt = 1
      first ==
        IF Truthy(openaiKey) /\ ~failOpenai
        THEN Outcome(Assign(c, "openaiApiKey", openaiKey),
                     SetValue(stored, OPENAI_API_KEY, openaiKey), FALSE)
        ELSE Outcome(c, stored, failOpenai)
      failAnthropic ==
        Truthy(anthropicKey)
          /\ failAt = (IF Truthy(openaiKey) THEN 2 ELSE 1)
  IN  IF first.threw \/ ~Truthy(anthropicKey) THEN first
      ELSE IF failAnthropic THEN Outcome(first.config, first.storage, TRUE)
      ELSE Outcome(Assign(first.config, "anthropicApiKey", anthropicKey),
                   SetValue(first.storage, ANTHROPIC_API_KEY, anthropicKey),
                   FALSE)

\* setDefaultProvider
SetDefaultProviderTo(c, stored, provider, failAt) ==
  SaveSettingsTo(
    Assign(Assign(c, "defaultProvider", provider), "defaultModel",
           IF provider = "openai" THEN "gpt-4" ELSE Model_claude),
    stored, failAt = 1)

\* updateSettings
UpdateSettingsTo(c, stored, newSettings, failAt) ==
  LET saved ==
        SaveSettingsTo(AssignSettings(c, Spread(c.settings, newSettings)),
                       stored, failAt = 1)
  IN  IF saved.threw THEN saved
      ELSE IF Truthy(Get(newSettings, "openaiApiKey"))
              \/ Truthy(Get(newSettings, "anthropicApiKey"))
           THEN SaveApiKeysTo(saved.config, saved.storage,
                              Get(newSettings, "openaiApiKey"),
                              Get(newSettings, "anthropicApiKey"),
                              failAt - 1)
           ELSE saved

\* clearAllData
ClearAllDataTo(c, stored, failAt) ==
  LET first == DeleteValue(stored, OPENAI_API_KEY)
      second == DeleteValue(first, ANTHROPIC_API_KEY)
      third == DeleteValue(second, SETTINGS)
  IN  CASE failAt = 1 -> Outcome(c, stored, TRUE)
        [] failAt = 2 -> Outcome(c, first, TRUE)
        [] failAt = 3 -> Outcome(c, second, TRUE)
        [] OTHER -> Outcome(AssignDefaults(c), third, FALSE)

\* getSettings: a copy of the settings object
GetSettings(c) == c.settings

\* getApiKey(provider), provider given
GetApiKey(c, provider) ==
  IF provider = "openai" THEN Get(c.settings, "openaiApiKey")
  ELSE Get(c.settings, "anthropicApiKey")

\* The keys the dialogs hand over: none, an empty field, a key
KeyArguments == {Undefined, "", "sk-1"}

\* The objects handed to updateSettings
NewSettings ==
  { [n \in {} |-> ""],
    [defaultModel |-> "gpt-4o", openaiApiKey |-> "sk-1"],
    [maxTokens |-> "50", anthropicApiKey |-> "", openaiApiKey |-> ""],
    [temperature |-> Undefined, anthropicApiKey |-> "sk-1"] }

\* A page has loaded the script: a manager is constructed, nothing is stored
InitConfig ==
  /\ doc = TextNode(<<>>)
  /\ results = <<>>
  /\ contrib = <<>>
  /\ repeated = FALSE
  /\ clip = Null
  /\ saver = Null
  /\ config = [DEFAULT_SETTINGS |-> DefaultSettings,
               settings |-> DefaultSettings, aliased |-> TRUE,
               last |-> "constructor", threw |-> FALSE]
  /\ storage = [k \in {} |-> ""]
  /\ extractor = Null
  /\ clipper = Null
  /\ clipping = Null
  /\ player = Null

\* An operation has run to its end
Done(operation, outcome) ==
  /\ config' = [outcome.config EXCEPT !.last = operation,
                                      !.threw = outcome.threw]
  /\ storage' = outcome.storage

Initialize(failAt) ==
  LET outcome == LoadSettings(config, failAt)
  IN  /\ Done("initialize", outcome)
      /\ UNCHANGED <<converterVars, clip, saver, pageVars>>

SaveSettings(failAt) ==
  LET outcome == SaveSettingsTo(config, storage, failAt = 1)
  IN  /\ Done("saveSettings", outcome)
      /\ UNCHANGED <<converterVars, clip, saver, pageVars>>

SaveApiKeys(openaiKey, anthropicKey, failAt) ==
  LET outcome ==
        SaveApiKeysTo(config, storage, openaiKey, anthropicKey, failAt)
  IN  /\ Done("saveApiKeys", outcome)
      /\ UNCHANGED <<converterVars, clip, saver, pageVars>>

SetDefaultProvider(provider, failAt) ==
  LET outcome == SetDefaultProviderTo(config, storage, provider, failAt)
  IN  /\ Done("setDefaultProvider", outcome)
      /\ UNCHANGED <<converterVars, clip, saver, pageVars>>

UpdateSettings(newSettings, failAt) ==
  LET outcome == UpdateSettingsTo(config, storage, newSettings, failAt)
  IN  /\ Done("updateSettings", outcome)
      /\ UNCHANGED <<converterVars, clip, saver, pageVars>>

ClearAllData(failAt) ==
  LET outcome == ClearAllDataTo(config, storage, failAt)
  IN  /\ Done("clearAllData", outcome)
      /\ UNCHANGED <<converterVars, clip, saver, pageVars>>

\* The page is loaded again: the module and the manager are new, the stored
\* values stay
Reload ==
  LET constructed == [config EXCEPT !.DEFAULT_SETTINGS = DefaultSettings,
                                    !.settings = DefaultSettings,
                                    !.aliased = TRUE]
  IN  /\ Done("constructor", Outcome(constructed, storage, FALSE))
      /\ UNCHANGED <<converterVars, clip, saver, pageVars>>

NextConfig ==
  \/ Reload
  \/ \E failAt \in 0..MaxGmCalls :
       \/ Initialize(failAt)
       \/ SaveSettings(failAt)
       \/ \E openaiKey \in KeyArguments, anthropicKey \in KeyArguments :
            SaveApiKeys(openaiKey, anthropicKey, failAt)
       \/ \E provider \in {"openai", "anthropic"} :
            SetDefaultProvider(provider, failAt)
       \/ \E newSettings \in NewSettings : UpdateSettings(newSettings, failAt)
       \/ ClearAllData(failAt)

SpecConfig == InitConfig /\ [][NextConfig]_vars

(***************************************************************************)
(* ReadabilityExtractor (src/personal-web-clipper/src/readability.ts)      *)
(*                                                                         *)
(* The page is the sequence of its elements in document order; of an       *)
(* element the model keeps which content selectors it matches, whether it  *)
(* is visible and how long its trimmed text is.  An element is referred to *)
(* by its id; a reference that is null is the string "null".               *)
(***************************************************************************)

NullElement == "null"

\* The prioritized list of content selectors
CONTENT_SELECTORS ==
  << ".PageContent", ".prose", "article", "main", "[role=main]",
     "#content-area", "#content-container", ".markdown-body",
     ".documentation", ".docs-content", "[data-component-part=step-content]",
     ".nextra-content", ".docusaurus-content", ".page-inner", ".book-body",
     ".entry-content", ".post-content", ".article-content", ".article-body",
     "#content", ".content", "#main-content" >>

\* The least length of trimmed text hasSignificantTextContent does not accept
MinTextLength == 200

\* document.querySelector(selector): the first element in document order that
\* matches, null when there is none
QuerySelector(dom, selector) ==
  LET matching == SelectSeq(dom, LAMBDA element : selector \in element.matches)
  IN  IF matching = <<>> THEN Null ELSE Some(matching[1])

\* isElementSuitable: visible and with significant text content
IsElementSuitable(element) ==
  element.visible /\ element.textLength > MinTextLength

\* The loop of findContentElement: the first selector whose first match is
\* suitable gives the element, null when no selector does
ScanSelectors(dom) ==
  LET found == SelectSeq(CONTENT_SELECTORS,
                         LAMBDA selector :
                           /\ QuerySelector(dom, selector) # Null
                           /\ IsElementSuitable(QuerySelector(dom, selector)[1]))
  IN  IF found = <<>> THEN NullElement
      ELSE QuerySelector(dom, found[1])[1].id

\* findContentElement with the cache tested for truthiness: a cached null is
\* scanned for again
FindContentElementIn_RescanNull(x) ==
  IF x.cachedContentElement \notin {Undefined, NullElement}
  THEN [returned |-> x.cachedContentElement,
        cachedContentElement |-> x.cachedContentElement, scanned |-> FALSE]
  ELSE [returned |-> ScanSelectors(x.dom),
        cachedContentElement |-> ScanSelectors(x.dom), scanned |-> TRUE]

\* findContentElement: what it returns, what it leaves in the cache and
\* whether it queried the document
FindContentElementIn(x) ==
  IF x.cachedContentElement # Undefined
  THEN [returned |-> x.cachedContentElement,
        cachedContentElement |-> x.cachedContentElement, scanned |-> FALSE]
  ELSE [returned |-> ScanSelectors(x.dom),
        cachedContentElement |-> ScanSelectors(x.dom), scanned |-> TRUE]

\* The URL prefixes isClippablePage skips
SkipDomains ==
  { <<"c", "h", "r", "o", "m", "e", ":", "/", "/">>,
    <<"m", "o", "z", "-", "e", "x", "t", "e", "n", "s", "i", "o", "n", ":", "/", "/">>,
    <<"c", "h", "r", "o", "m", "e", "-", "e", "x", "t", "e", "n", "s", "i", "o", "n", ":", "/", "/">>,
    <<"a", "b", "o", "u", "t", ":">>,
    <<"d", "a", "t", "a", ":">>,
    <<"j", "a", "v", "a", "s", "c", "r", "i", "p", "t", ":">> }

\* isClippablePage: false on a skipped URL, else whether findContentElement
\* returns an element
IsClippablePageIn(x) ==
  IF \E domain \in SkipDomains : StartsWith(x.url, domain)
  THEN [returned |-> "false", cachedContentElement |-> x.cachedContentElement,
        scanned |-> FALSE]
  ELSE LET found == FindContentElementIn(x)
       IN  [found EXCEPT
              !.returned = IF @ # NullElement THEN "true" ELSE "false"]

\* The pages: at most two elements, each matching some of the selectors
ElementIds == {"e1", "e2"}

SelectorSets == {{".prose"}, {"article", ".content"}, {".content"}}

PageElements ==
  [id : ElementIds, matches : SelectorSets, visible : BOOLEAN,
   textLength : {MinTextLength, MinTextLength + 1}]

Pages ==
  {<<>>} \cup {<<e>> : e \in PageElements}
    \cup UNION { {<<e, f>> : f \in {g \in PageElements : g.id # e.id}}
                 : e \in PageElements }

Url_page == <<"h", "t", "t", "p", "s", ":", "/", "/", "x">>
Url_about == <<"a", "b", "o", "u", "t", ":", "b", "l", "a", "n", "k">>

PageUrls == {Url_page, Url_about}

\* The script has loaded on a page: nothing is cached
InitExtractor ==
  /\ doc = TextNode(<<>>)
  /\ results = <<>>
  /\ contrib = <<>>
  /\ repeated = FALSE
  /\ clip = Null
  /\ saver = Null
  /\ config = Null
  /\ storage = Null
  /\ extractor \in [dom : Pages, url : PageUrls,
                    cachedContentElement : {Undefined},
                    last : {[op |-> "load", returned |-> Undefined,
                             scanned |-> FALSE]}]
  /\ clipper = Null
  /\ clipping = Null
  /\ player = Null

\* A call ReadabilityExtractor.findContentElement()
FindContentElement ==
  /\ extractor' =
       [extractor EXCEPT
          !.cachedContentElement = FindContentElementIn(extractor).cachedContentElement,
          !.last = [op |-> "findContentElement",
                    returned |-> FindContentElementIn(extractor).returned,
                    scanned |-> FindContentElementIn(extractor).scanned]]
  /\ UNCHANGED <<converterVars, clip, saver, configVars, clipper, clipping, player>>

\* A call ReadabilityExtractor.isClippablePage()
IsClippablePage ==
  /\ extractor' =
       [extractor EXCEPT
          !.cachedContentElement = IsClippablePageIn(extractor).cachedContentElement,
          !.last = [op |-> "isClippablePage",
                    returned |-> IsClippablePageIn(extractor).returned,
                    scanned |-> IsClippablePageIn(extractor).scanned]]
  /\ UNCHANGED <<converterVars, clip, saver, configVars, clipper, clipping, player>>

\* A call ReadabilityExtractor.clearContentCache()
ClearContentCache ==
  /\ extractor' =
       [extractor EXCEPT
          !.cachedContentElement = Undefined,
          !.last = [op |-> "clearContentCache", returned |-> Undefined,
                    scanned |-> FALSE]]
  /\ UNCHANGED <<converterVars, clip, saver, configVars, clipper, clipping, player>>

\* The page changes by itself: an element is added at either end, or removed
Mutation(dom) ==
  /\ dom # extractor.dom
  /\ \/ \E e \in PageElements : dom \in {<<e>> \o extractor.dom, extractor.dom \o <<e>>}
     \/ \E i \in 1..Len(extractor.dom) :
          dom = SelectSeq(extractor.dom, LAMBDA e : e # extractor.dom[i])
  /\ extractor' =
       [extractor EXCEPT
          !.dom = dom,
          !.last = [op |-> "mutation", returned |-> Undefined,
                    scanned |-> FALSE]]
  /\ UNCHANGED <<converterVars, clip, saver, configVars, clipper, clipping, player>>

\* The page navigates: location.href changes
Navigation(url) ==
  /\ url # extractor.url
  /\ extractor' =
       [extractor EXCEPT
          !.url = url,
          !.last = [op |-> "navigation", returned |-> Undefined,
                    scanned |-> FALSE]]
  /\ UNCHANGED <<converterVars, clip, saver, configVars, clipper, clipping, player>>

NextExtractor ==
  \/ FindContentElement
  \/ IsClippablePage
  \/ ClearContentCache
  \/ \E dom \in Pages : Mutation(dom)
  \/ \E url \in PageUrls : Navigation(url)

SpecExtractor == InitExtractor /\ [][NextExtractor]_vars

(***************************************************************************)
(* PersonalWebClipper: setup (src/personal-web-clipper/src/main.ts)        *)
(*                                                                         *)
(* One instance on one page.  The tasks of the event loop are the actions: *)
(* the timers of init and setup, the debounce timer, a change of the       *)
(* document with the callbacks of the mutation observers it wakes, a       *)
(* change of the URL, and a key press.                                     *)
(***************************************************************************)

\* The delays setup waits between its retries
RetryDelays == <<1000, 2000, 3000, 5000, 8000>>

maxSetupRetries == 10

\* The most runs of finalizeSetup and connected content observers followed
MaxFinalizations == 3
MaxObservers == 3

\* What ReadabilityExtractor sees of the page
View(c) ==
  [dom |-> c.dom, url |-> c.url, cachedContentElement |-> c.cachedContentElement]

\* ReadabilityExtractor.clearContentCache()
ClearCache(c) == [c EXCEPT !.cachedContentElement = Undefined]

\* ReadabilityExtractor.isClippablePage(): the cache it leaves
AfterIsClippable(c) ==
  [c EXCEPT !.cachedContentElement = IsClippablePageIn(View(c)).cachedContentElement]

Clippable(c) == IsClippablePageIn(View(c)).returned = "true"

\* finalizeSetup: setupEventHandlers adds a keydown handler and a URL
\* observer with its own lastUrl, registerMenuCommands four menu commands
FinalizeSetup(c) ==
  [c EXCEPT !.finalized = @ + 1,
            !.keydownHandlers = @ + 1,
            !.lastUrl = Append(@, c.url),
            !.menuCommands = @ + 4]

\* setupContentObserver: a new observer is connected and replaces the
\* reference to the one before, which stays connected
SetupContentObserver(c) ==
  [c EXCEPT !.observers = @ + 1, !.contentObserver = TRUE]

\* setup from the retry with the given index on, up to its next await
SetupFrom(c, index) ==
  IF index <= Len(RetryDelays) /\ c.setupRetryCount < maxSetupRetries
  THEN [c EXCEPT !.setupRetryCount = @ + 1, !.pc = "retry", !.retry = index]
  ELSE [SetupContentObserver(c) EXCEPT !.pc = "settled"]

\* checkForContent
CheckForContent(c) ==
  LET cleared == ClearCache(c)
      checked == AfterIsClippable(cleared)
  IN  IF Clippable(cleared)
      THEN [FinalizeSetup(checked) EXCEPT
              !.observers = IF c.contentObserver THEN @ - 1 ELSE @,
              !.contentObserver = FALSE]
      ELSE checked

RECURSIVE UrlObservers(_, _)
\* The callbacks of the URL observers from the i-th on, in order of creation
UrlObservers(c, i) ==
  IF i > Len(c.lastUrl) THEN c
  ELSE IF c.url = c.lastUrl[i] THEN UrlObservers(c, i + 1)
  ELSE LET seen == [c EXCEPT !.lastUrl[i] = c.url]
           cleared == ClearCache(seen)
           checked == AfterIsClippable(cleared)
       IN  UrlObservers(IF Clippable(cleared) THEN checked
                        ELSE SetupContentObserver(checked), i + 1)

\* The callback of the content observers: a check is due a second after the
\* last addition of an element with more than 100 characters of text
ContentObservers(c, significant) ==
  IF c.observers > 0 /\ significant
  THEN [c EXCEPT !.debouncedContentCheck = "pending"]
  ELSE c

\* The pages of the clipper: without content, and with an article
Article ==
  [id |-> "e1", matches |-> {"article"}, visible |-> TRUE,
   textLength |-> MinTextLength + 1]

ClipperPages == {<<>>, <<Article>>}

Url_other == <<"h", "t", "t", "p", "s", ":", "/", "/", "x", "/", "b">>

ClipperUrls == {Url_page, Url_other}

\* The instance is constructed on a loaded page; init waits 500 ms
InitClipper ==
  /\ doc = TextNode(<<>>)
  /\ results = <<>>
  /\ contrib = <<>>
  /\ repeated = FALSE
  /\ clip = Null
  /\ saver = Null
  /\ config = Null
  /\ storage = Null
  /\ extractor = Null
  /\ clipper \in [pc : {"init"}, retry : {0}, setupRetryCount : {0},
                  initialized : {FALSE},
                  dom : ClipperPages, url : {Url_page},
                  cachedContentElement : {Undefined},
                  finalized : {0}, keydownHandlers : {0}, lastUrl : {<<>>},
                  menuCommands : {0},
                  observers : {0}, contentObserver : {FALSE},
                  debouncedContentCheck : {"null"},
                  clipsStarted : {0}]
  /\ clipping = Null
  /\ player = Null

\* The timer of init fires: setup runs up to its first await or to its end
Setup ==
  /\ clipper.pc = "init"
  /\ clipper' =
       [(IF Clippable(clipper)
         THEN [FinalizeSetup(AfterIsClippable(clipper)) EXCEPT !.pc = "settled"]
         ELSE SetupFrom(AfterIsClippable(clipper), 1))
        EXCEPT !.initialized = TRUE]
  /\ UNCHANGED <<converterVars, clip, saver, configVars, extractor, clipping, player>>

\* A retry timer of setup fires
SetupRetry ==
  /\ clipper.pc = "retry"
  /\ clipper' =
       LET cleared == ClearCache(clipper)
       IN  IF Clippable(cleared)
           THEN [FinalizeSetup(AfterIsClippable(cleared)) EXCEPT !.pc = "settled"]
           ELSE SetupFrom(AfterIsClippable(cleared), clipper.retry + 1)
  /\ UNCHANGED <<converterVars, clip, saver, configVars, extractor, clipping, player>>

\* The page changes its document; the callbacks of the observers run
DomMutation(dom, significant) ==
  /\ clipper' = UrlObservers(ContentObservers([clipper EXCEPT !.dom = dom],
                                              significant), 1)
  /\ clipper'.observers <= MaxObservers
  /\ UNCHANGED <<converterVars, clip, saver, configVars, extractor, clipping, player>>

\* The page changes its URL without loading
UrlChange(url) ==
  /\ url # clipper.url
  /\ clipper' = [clipper EXCEPT !.url = url]
  /\ UNCHANGED <<converterVars, clip, saver, configVars, extractor, clipping, player>>

\* The debounce timer fires
DebounceTimer ==
  /\ clipper.debouncedContentCheck = "pending"
  /\ clipper' = [CheckForContent(clipper) EXCEPT !.debouncedContentCheck = "fired"]
  /\ clipper'.finalized <= MaxFinalizations
  /\ UNCHANGED <<converterVars, clip, saver, configVars, extractor, clipping, player>>

\* Ctrl/Cmd+Shift+C is pressed once: every keydown handler calls clipArticle
KeyDown ==
  /\ clipper' = [clipper EXCEPT !.clipsStarted = clipper.keydownHandlers]
  /\ UNCHANGED <<converterVars, clip, saver, configVars, extractor, clipping, player>>

NextClipper ==
  \/ Setup
  \/ SetupRetry
  \/ \E dom \in ClipperPages, significant \in BOOLEAN : DomMutation(dom, significant)
  \/ \E url \in ClipperUrls : UrlChange(url)
  \/ DebounceTimer
  \/ KeyDown

SpecClipper == InitClipper /\ [][NextClipper]_vars

(***************************************************************************)
(* PersonalWebClipper.clipArticle (src/personal-web-clipper/src/main.ts)   *)
(*                                                                         *)
(* The call runs to its await of FileSaver.saveMarkdownFile, the saver     *)
(* takes its steps, and the call resumes with what the saver returned.     *)
(* The notifications are written without their leading symbol.             *)
(***************************************************************************)

Note_extracting == "Extracting article content..."
Note_none == "No article content found on this page"
Note_success == "Article clipped successfully!"
Note_cancelled == "Article clipping was cancelled"
Note_error == "Error clipping article"

\* ClipperUI.showNotification(message)
ShowNotification(c, message) ==
  [c EXCEPT !.notifications = Append(@, message)]

\* The rest of clipArticle once saveMarkdownFile has returned: trackUsage
\* throws when the stored usage statistics do not parse, and the catch clause
\* reports an error
AfterSave(c, saved) ==
  IF saved
  THEN LET shown == ShowNotification(c, Note_success)
       IN  IF c.statsParse
           THEN [shown EXCEPT !.tracked = @ + 1, !.pc = "done"]
           ELSE [ShowNotification(shown, Note_error) EXCEPT !.pc = "done"]
  ELSE [ShowNotification(c, Note_cancelled) EXCEPT !.pc = "done"]

\* Before a call of clipArticle: whether extractArticle finds an article,
\* whether the stored usage statistics parse, and the document, the title
\* and the window of the saver
InitClipArticle ==
  /\ doc = TextNode(<<>>)
  /\ results = <<>>
  /\ contrib = <<>>
  /\ repeated = FALSE
  /\ clip = Null
  /\ config = Null
  /\ storage = Null
  /\ extractor = Null
  /\ clipper = Null
  /\ clipping \in [pc : {"idle"}, article : BOOLEAN, statsParse : BOOLEAN,
                   notifications : {<<>>}, tracked : {0}]
  /\ player = Null
  /\ saver \in [isSupported : BOOLEAN,
                content : {<<"a">>},
                suggestedName : StringsUpTo(NameChars, MaxNameLen),
                pc : {"start"}, picker : {Null}, written : {Null},
                file : {Null}, downloads : {<<>>}, error : {Null},
                result : {Null}]

\* clipArticle up to its await
ClipArticle ==
  /\ clipping.pc = "idle"
  /\ IF clipping.article
     THEN /\ clipping' = [ShowNotification(clipping, Note_extracting)
                            EXCEPT !.pc = "saving"]
          /\ saver' = StartSave(saver)
     ELSE /\ clipping' =
               [ShowNotification(ShowNotification(clipping, Note_extracting),
                                 Note_none) EXCEPT !.pc = "done"]
          /\ UNCHANGED saver
  /\ UNCHANGED <<converterVars, clip, configVars, extractor, clipper, player>>

\* clipArticle resumes with the value saveMarkdownFile returned
ClipArticleResumes ==
  /\ clipping.pc = "saving"
  /\ saver.pc = "done"
  /\ clipping' = AfterSave(clipping, saver.result[1])
  /\ UNCHANGED <<converterVars, clip, saver, configVars, extractor, clipper, player>>

NextClipArticle ==
  \/ ClipArticle
  \/ Fulfilled
  \/ \E name \in ErrorNames : Rejected(name)
  \/ ClipArticleResumes

SpecClipArticle == InitClipArticle /\ [][NextClipArticle]_vars

(***************************************************************************)
(* YouTube Clean Player: page logic (src/unnamed/part_008)                 *)
(*                                                                         *)
(* The pending timers are kept in the order they were set, each with its   *)
(* callback and the time left; the clock advances in steps of the shorter  *)
(* delay, and a timer fires when its time is up, earlier timers first.     *)
(* A URL is written without its origin: the path and the query.            *)
(***************************************************************************)

PageLogicDelay == 100
InjectDelay == 500

\* The most pending timers followed
MaxTimers == 3

Str_shorts == <<"/", "s", "h", "o", "r", "t", "s", "/">>
Path_short == <<"/", "s", "h", "o", "r", "t", "s", "/", "a", "b">>
Path_query == <<"/", "s", "h", "o", "r", "t", "s", "/", "a", "b", "?", "t">>
Path_watch == <<"/", "w", "a", "t", "c", "h", "?", "v", "=">>
Path_home == <<"/">>

\* The URLs YouTube navigates to: a Short, one with a query, the Shorts path
\* without a video, a video, the home page
PageLocations ==
  {Path_short, Path_query, Str_shorts, Path_watch \o <<"c">>, Path_home}

\* window.location.pathname
Pathname(url) == Take(url, RunLen(url, {url[k] : k \in 1..Len(url)} \ {"?", "#"}))

\* s.includes(p)
Includes(s, p) ==
  \E i \in 0..(Len(s) - Len(p)) : SubSeq(s, i + 1, i + Len(p)) = p

\* url.match(/\/shorts\/([^?&]+)/)?.[1]: the video id after the first
\* '/shorts/', null when nothing matches
VideoId(url) ==
  IF ~Includes(url, Str_shorts) THEN Null
  ELSE LET i == CHOOSE i \in 0..(Len(url) - Len(Str_shorts)) :
                  /\ SubSeq(url, i + 1, i + Len(Str_shorts)) = Str_shorts
                  /\ \A j \in 0..(i - 1) :
                       SubSeq(url, j + 1, j + Len(Str_shorts)) # Str_shorts
           rest == Drop(url, i + Len(Str_shorts))
           id == Take(rest, RunLen(rest, {rest[k] : k \in 1..Len(rest)} \ {"?", "&"}))
       IN  IF id = <<>> THEN Null ELSE Some(id)

\* setTimeout(callback, delay)
SetTimeout(p, callback, delay) ==
  [p EXCEPT !.timers = Append(@, [callback |-> callback, remaining |-> delay])]

\* window.location.replace(the watch URL of the video): the page is loaded
\* anew, with a new document, no timers, and the script starting again
Replace(p, videoId) ==
  [p EXCEPT !.url = Path_watch \o videoId, !.button = FALSE,
            !.timers = <<>>, !.started = FALSE]

\* handleShortsRedirect
HandleShortsRedirect(p) ==
  IF ~p.autoRedirect THEN p
  ELSE IF Includes(p.url, Str_shorts) /\ VideoId(p.url) # Null
       THEN Replace(p, VideoId(p.url)[1])
       ELSE p

\* injectRedirectButton: one button at most
InjectRedirectButton(p) == [p EXCEPT !.button = TRUE]

\* removeRedirectButton
RemoveRedirectButton(p) == [p EXCEPT !.button = FALSE]

\* handlePageLogic
HandlePageLogic(p) ==
  IF StartsWith(Pathname(p.url), Str_shorts)
  THEN IF p.autoRedirect THEN HandleShortsRedirect(p)
       ELSE SetTimeout(p, "injectRedirectButton", InjectDelay)
  ELSE RemoveRedirectButton(p)

\* handleNavigation
HandleNavigation(p) == SetTimeout(p, "handlePageLogic", PageLogicDelay)

\* The click handler of the button
ClickRedirectButton(p) ==
  IF Includes(p.url, Str_shorts) /\ VideoId(p.url) # Null
  THEN Replace(p, VideoId(p.url)[1])
  ELSE p

\* A page of YouTube is loading with the script installed
InitPlayer ==
  /\ doc = TextNode(<<>>)
  /\ results = <<>>
  /\ contrib = <<>>
  /\ repeated = FALSE
  /\ clip = Null
  /\ saver = Null
  /\ config = Null
  /\ storage = Null
  /\ extractor = Null
  /\ clipper = Null
  /\ clipping = Null
  /\ player \in [autoRedirect : BOOLEAN, url : PageLocations, button : {FALSE},
                 timers : {<<>>}, started : {FALSE}]

\* init runs when the document is ready
InitScript ==
  /\ ~player.started
  /\ player' = HandlePageLogic([player EXCEPT !.started = TRUE])
  /\ UNCHANGED <<converterVars, clip, saver, configVars, extractor, clipper, clipping>>

\* YouTube has navigated to a URL and dispatches yt-navigate-finish
NavigateFinish(url) ==
  /\ player.started
  /\ Len(player.timers) < MaxTimers
  /\ player' = HandleNavigation([player EXCEPT !.url = url])
  /\ UNCHANGED <<converterVars, clip, saver, configVars, extractor, clipper, clipping>>

\* Time passes while no timer is due
Tick ==
  /\ player.timers # <<>>
  /\ \A i \in 1..Len(player.timers) : player.timers[i].remaining > 0
  /\ player' =
       [player EXCEPT
          !.timers = [i \in 1..Len(@) |->
                        [@[i] EXCEPT !.remaining =
                           IF @ > PageLogicDelay THEN @ - PageLogicDelay ELSE 0]]]
  /\ UNCHANGED <<converterVars, clip, saver, configVars, extractor, clipper, clipping>>

\* The earliest timer that is due fires and its callback runs
TimerFires ==
  /\ \E i \in 1..Len(player.timers) : player.timers[i].remaining = 0
  /\ LET i == CHOOSE i \in 1..Len(player.timers) :
                /\ player.timers[i].remaining = 0
                /\ \A j \in 1..(i - 1) : player.timers[j].remaining # 0
         rest == [player EXCEPT
                    !.timers = SubSeq(@, 1, i - 1) \o SubSeq(@, i + 1, Len(@))]
     IN  /\ player' =
              IF player.timers[i].callback = "handlePageLogic"
              THEN HandlePageLogic(rest)
              ELSE InjectRedirectButton(rest)
         /\ Len(player'.timers) <= MaxTimers
  /\ UNCHANGED <<converterVars, clip, saver, configVars, extractor, clipper, clipping>>

\* The user clicks the button
Click ==
  /\ player.button
  /\ player' = ClickRedirectButton(player)
  /\ player' # player
  /\ UNCHANGED <<converterVars, clip, saver, configVars, extractor, clipper, clipping>>

NextPlayer ==
  \/ InitScript
  \/ \E url \in PageLocations : NavigateFinish(url)
  \/ Tick
  \/ TimerFires
  \/ Click

SpecPlayer == InitPlayer /\ [][NextPlayer]_vars

(***************************************************************************)
(* Claims                                                                  *)
(***************************************************************************)

\* The node of doc at path p
Node(p) == NodeAt(doc, p)

IsText(n) == n.nodeType = TEXT_NODE

IsElement(n) == n.nodeType = ELEMENT_NODE

\* The characters of a string, as a set
CharsOf(s) == {s[i] : i \in 1..Len(s)}

\* The text with a backslash put before each metacharacter, in one pass
SinglePassEscape(text) ==
  Concat([i \in 1..Len(text) |->
            IF text[i] \in MetaChars THEN <<"\\", text[i]>> ELSE <<text[i]>>])

\* C1: what processNode returns for a text node is its text with each of the
\* ten metacharacters preceded by one added backslash and every other
\* character copied in order; no added backslash is escaped again.
C1_EscapeIsSinglePass ==
  \A p \in DOMAIN contrib :
    IsText(Node(p)) => contrib[p] = SinglePassEscape(Node(p).data)

\* A text node holding a backslash and another metacharacter was converted.
C1_Witness ==
  \E p \in DOMAIN contrib :
    /\ IsText(Node(p))
    /\ "\\" \in CharsOf(Node(p).data)
    /\ CharsOf(Node(p).data) \cap (MetaChars \ {"\\"}) # {}
    /\ Len(contrib[p]) = 2 * Len(Node(p).data)

\* s holds n or more consecutive newlines
HasNewlineRun(s, n) ==
  \E i \in 1..(Len(s) - n + 1) : \A j \in 0..(n - 1) : s[i + j] = "\n"

\* C2: no result of htmlToMarkdown holds three or more consecutive newlines.
C2_NoTripleNewline ==
  \A p \in DOMAIN results : ~HasNewlineRun(results[p], 3)

\* The lines of s that open or close a code fence: after leading spaces they
\* start with three backticks
FenceLines(s) ==
  LET lines == Split(s, "\n")
  IN  {i \in 1..Len(lines) :
         StartsWith(Drop(lines[i], RunLen(lines[i], {" "})), Fence)}

\* C3: every result of htmlToMarkdown holds an even number of fence lines.
C3_FencesBalanced ==
  \A p \in DOMAIN results : Cardinality(FenceLines(results[p])) % 2 = 0

\* The characters a string of the model is made of
Characters ==
  MetaChars \cup WhiteSpace \cup {Backtick} \cup CharsOf(LowerCase)
    \cup CharsOf(UpperCase) \cup CharsOf(Digits) \cup {"-", ".", ">", ":", "/"}

IsString(s) == s \in Seq(Characters)

\* The tags getDirectConversion or wrapWithElementFormatting special-case
DirectTags ==
  {Tag_code, Tag_pre, Tag_ul, Tag_ol, Tag_a, Tag_img, Tag_br, Tag_hr}

WrapTags ==
  {Tag_h1, Tag_h2, Tag_h3, Tag_h4, Tag_h5, Tag_h6, Tag_blockquote, Tag_p,
   Tag_strong, Tag_b, Tag_em, Tag_i, Tag_li}

IsTransparent(n) ==
  IsElement(n) /\ ToLowerCase(n.tagName) \notin (DirectTags \cup WrapTags)

NoMeta(s) == CharsOf(s) \cap MetaChars = {}

\* s holds a space right before a line terminator
SpaceBeforeNewline(s) ==
  \E i \in 1..(Len(s) - 1) : s[i] = " " /\ s[i + 1] \in LineTerminators

\* C6 as claimed: a text node without metacharacters converts to its text
\* with the whitespace at the two ends removed and nothing else altered.
C6_PlainTextOnlyTrimmed ==
  \A p \in DOMAIN results :
    IsText(Node(p)) /\ NoMeta(Node(p).data)
      => results[p] = Trim(Node(p).data)

\* C6 as amended: so it does when the trimmed text holds no space right
\* before a line terminator and no run of three or more newlines.
C6_PlainTextTrimmedUnlessCleaned ==
  \A p \in DOMAIN results :
    LET t == Trim(Node(p).data)
    IN  /\ IsText(Node(p)) /\ NoMeta(Node(p).data)
        /\ ~SpaceBeforeNewline(t) /\ ~HasNewlineRun(t, 3)
        => results[p] = t

\* A plain text with whitespace at an end, and a newline and a space inside,
\* was converted to its trimmed text.
C6_Witness ==
  \E p \in DOMAIN results :
    LET t == Trim(Node(p).data)
    IN  /\ IsText(Node(p)) /\ NoMeta(Node(p).data)
        /\ ~SpaceBeforeNewline(t) /\ ~HasNewlineRun(t, 3)
        /\ t # Node(p).data /\ {"\n", " "} \subseteq CharsOf(t)
        /\ results[p] = t

\* C7: an element of a tag that is not special-cased contributes the
\* concatenation of what its children contribute, whitespace-only or not.
C7_TransparentPassThrough ==
  \A p \in DOMAIN contrib :
    IsTransparent(Node(p))
      => contrib[p] = Concat([i \in 1..Len(Node(p).childNodes) |->
                                contrib[p \o <<i>>]])

\* A character of cs ends a line of s
EndsLineWith(s, cs) ==
  \E i \in 1..Len(s) :
    s[i] \in cs /\ (i = Len(s) \/ s[i + 1] \in LineTerminators)

NoEdgeWhitespace(s) ==
  s = <<>> \/ (s[1] \notin WhiteSpace /\ s[Len(s)] \notin WhiteSpace)

\* C8 as claimed: no line of a result ends with a space or a tab, and no
\* result begins or ends with whitespace.
C8_NoTrailingWhitespace ==
  \A p \in DOMAIN results :
    ~EndsLineWith(results[p], {" ", "\t"}) /\ NoEdgeWhitespace(results[p])

\* C8 as amended: no line of a result ends with a space, and no result
\* begins or ends with whitespace.
C8_NoTrailingSpace ==
  \A p \in DOMAIN results :
    ~EndsLineWith(results[p], {" "}) /\ NoEdgeWhitespace(results[p])

\* A node was converted whose contribution before cleanup had a space before
\* a newline, followed by more text, and whitespace at an end.
C8_Witness ==
  \E p \in DOMAIN results :
    /\ p \in DOMAIN contrib
    /\ SpaceBeforeNewline(Trim(contrib[p]))
    /\ ~NoEdgeWhitespace(contrib[p])
    /\ results[p] # <<>>

\* C9: an a element whose href starts with "http" contributes
\* "[" text "](" href ")", text being its trimmed text content; any other a
\* element contributes just that text.
C9_LinkConversion ==
  \A p \in DOMAIN contrib :
    LET n == Node(p)
        text == Trim(TextContent(n))
    IN  IsElement(n) /\ ToLowerCase(n.tagName) = Tag_a
        => contrib[p] =
             IF "href" \in DOMAIN n.attributes
                /\ StartsWith(n.attributes["href"], Str_http)
             THEN <<"[">> \o text \o <<"]", "(">> \o n.attributes["href"]
                    \o <<")">>
             ELSE text

\* A link with an http href and text to trim was converted to link markup.
C9_Witness ==
  \E p \in DOMAIN contrib :
    LET n == Node(p)
    IN  /\ IsElement(n) /\ ToLowerCase(n.tagName) = Tag_a
        /\ "href" \in DOMAIN n.attributes
        /\ StartsWith(n.attributes["href"], Str_http)
        /\ Trim(TextContent(n)) \notin {<<>>, TextContent(n)}
        /\ contrib[p][1] = "["

\* The indices of the li children among the child nodes of a list, in order
LiIndices(n) ==
  SelectSeq([i \in 1..Len(n.childNodes) |-> i],
            LAMBDA i : /\ IsElement(n.childNodes[i])
                       /\ ToLowerCase(n.childNodes[i].tagName) = Tag_li)

\* What the contents of child i of the list at p converted to, trimmed
ItemText(p, i) ==
  Trim(Concat([j \in 1..Len(Node(p).childNodes[i].childNodes) |->
                 contrib[p \o <<i, j>>]]))

IsList(n) == IsElement(n) /\ ToLowerCase(n.tagName) \in {Tag_ul, Tag_ol}

SingleLineItems(p) ==
  \A k \in 1..Len(LiIndices(Node(p))) :
    LET c == ItemText(p, LiIndices(Node(p))[k])
    IN  c # <<>> /\ CharsOf(c) \cap LineTerminators = {}

\* C10: a ul or ol whose li children have contents converting to non-empty
\* single-line texts c_1..c_n converts to the lines prefix_k c_k, in order,
\* joined by single newlines; prefix_k is "- " for ul and k ". " for ol, k
\* counting the li children only.
C10_ListItems ==
  \A p \in DOMAIN results :
    IsList(Node(p)) /\ SingleLineItems(p)
      => LET idx == LiIndices(Node(p))
             ordered == ToLowerCase(Node(p).tagName) = Tag_ol
             line(k) == (IF ordered THEN <<Digits[k + 1], ".", " ">>
                         ELSE <<"-", " ">>) \o ItemText(p, idx[k])
         IN  results[p] = Join([k \in 1..Len(idx) |-> line(k)], <<"\n">>)

\* An ol with a non-li child between two of its items was converted.
C10_Witness ==
  \E p \in DOMAIN results :
    LET idx == LiIndices(Node(p))
    IN  /\ IsList(Node(p)) /\ SingleLineItems(p)
        /\ ToLowerCase(Node(p).tagName) = Tag_ol
        /\ Len(idx) >= 2
        /\ \E i \in (idx[1] + 1)..(idx[Len(idx)] - 1) :
             /\ IsElement(Node(p).childNodes[i])
             /\ ToLowerCase(Node(p).childNodes[i].tagName) # Tag_li

\* What the children of the element at p contributed, concatenated
KidsContent(p) ==
  Concat([i \in 1..Len(Node(p).childNodes) |-> contrib[p \o <<i>>]])

HeadingTags == {Tag_h1, Tag_h2, Tag_h3, Tag_h4, Tag_h5, Tag_h6}

\* The level of a heading tag, given in lower case
HeadingLevel(tagName) == CHOOSE k \in 1..6 : tagName = <<"h", Digits[k + 1]>>

IsHeading(n) == IsElement(n) /\ ToLowerCase(n.tagName) \in HeadingTags

\* C11: an element h1..h6, in either case, of level k whose children's
\* contributions, concatenated and trimmed, are a non-empty t contributes a
\* newline, k '#', one space, t and two newlines.
C11_Heading ==
  \A p \in DOMAIN contrib :
    IsHeading(Node(p)) /\ Trim(KidsContent(p)) # <<>>
      => contrib[p] =
           <<"\n">>
             \o [j \in 1..HeadingLevel(ToLowerCase(Node(p).tagName)) |-> "#"]
             \o <<" ">> \o Trim(KidsContent(p)) \o <<"\n", "\n">>

\* A heading of level 3 with an upper-case tag, whose content had whitespace
\* to trim at both ends, was converted.
C11_Witness ==
  \E p \in DOMAIN contrib :
    /\ IsElement(Node(p)) /\ Node(p).tagName = Tag_H3
    /\ Trim(KidsContent(p)) \notin
         {<<>>, TrimStart(KidsContent(p)), TrimEnd(KidsContent(p))}
    /\ Take(contrib[p], 5) = <<"\n", "#", "#", "#", " ">>

\* The tags wrapWithElementFormatting puts markup around
MarkupTags ==
  HeadingTags \cup {Tag_blockquote, Tag_p, Tag_strong, Tag_b, Tag_em, Tag_i}

\* C12: an element h1..h6, blockquote, p, strong, b, em or i whose children's
\* contributions, concatenated, are empty or whitespace only contributes the
\* empty string.
C12_EmptyWrapped ==
  \A p \in DOMAIN contrib :
    /\ IsElement(Node(p)) /\ ToLowerCase(Node(p).tagName) \in MarkupTags
    /\ Trim(KidsContent(p)) = <<>>
    => contrib[p] = <<>>

\* A blockquote, strong or h6 element whose children contributed whitespace,
\* and nothing else, was converted to the empty string.
C12_Witness ==
  \E p \in DOMAIN contrib :
    /\ IsElement(Node(p))
    /\ ToLowerCase(Node(p).tagName) \in {Tag_blockquote, Tag_strong, Tag_h6}
    /\ KidsContent(p) # <<>> /\ Trim(KidsContent(p)) = <<>>
    /\ contrib[p] = <<>>

IsImage(n) == IsElement(n) /\ ToLowerCase(n.tagName) = Tag_img

ImageMarkup(alt, src) ==
  <<"!", "[">> \o alt \o <<"]", "(">> \o src \o <<")">>

\* C13 as claimed: an img element with a src attribute contributes
\* "![" alt "](" src ")", alt being the value of its alt attribute when it
\* has one and "Image" otherwise; an img without a src attribute contributes
\* the empty string.
C13_ImageByPresence ==
  \A p \in DOMAIN contrib :
    LET attrs == Node(p).attributes
    IN  IsImage(Node(p))
        => contrib[p] =
             IF "src" \in DOMAIN attrs
             THEN ImageMarkup(IF "alt" \in DOMAIN attrs THEN attrs["alt"]
                              ELSE Str_Image,
                              attrs["src"])
             ELSE <<>>

\* C13 as amended: an img element with a non-empty src attribute contributes
\* "![" alt "](" src ")", alt being the value of its alt attribute when it
\* has a non-empty one and "Image" otherwise; an img whose src attribute is
\* missing or empty contributes the empty string.
C13_ImageByValue ==
  \A p \in DOMAIN contrib :
    LET attrs == Node(p).attributes
        HasValue(name) == name \in DOMAIN attrs /\ attrs[name] # <<>>
    IN  IsImage(Node(p))
        => contrib[p] =
             IF HasValue("src")
             THEN ImageMarkup(IF HasValue("alt") THEN attrs["alt"]
                              ELSE Str_Image,
                              attrs["src"])
             ELSE <<>>

\* An img with a src and an alt text, after a sibling, was converted to image
\* markup.
C13_Witness ==
  \E p \in DOMAIN contrib :
    /\ p # <<>> /\ IsImage(Node(p))
    /\ {"src", "alt"} \subseteq DOMAIN Node(p).attributes
    /\ Node(p).attributes["alt"] = Alt_text
    /\ contrib[p] = ImageMarkup(Alt_text, Src_path)

IsItem(n) == IsElement(n) /\ ToLowerCase(n.tagName) = Tag_li

\* C14: an li element processNode is called on, which is every li but the li
\* children of a ul or ol being converted, contributes the empty string
\* whatever its children contribute.
C14_StrayItem ==
  \A p \in DOMAIN contrib : IsItem(Node(p)) => contrib[p] = <<>>

\* An li below an element that is not a list, with children that contributed
\* text, was converted to the empty string.
C14_Witness ==
  \E p \in DOMAIN contrib :
    /\ p # <<>> /\ IsItem(Node(p))
    /\ ~IsList(Node(SubSeq(p, 1, Len(p) - 1)))
    /\ Trim(KidsContent(p)) # <<>>
    /\ contrib[p] = <<>>

\* The line key: "value" of the front matter
FrontMatterLine(key, value) ==
  key \o <<":", " ", "\"">> \o value \o <<"\"">>

\* The title with a backslash put before each double quote
QuotesEscaped(title) ==
  Concat([i \in 1..Len(title) |->
            IF title[i] = "\"" THEN <<"\\", "\"">> ELSE <<title[i]>>])

\* C15: the document createMarkdownDocument returns is, joined by newlines:
\* '---', title: "T" with T the title with each double quote preceded by a
\* backslash, url: "url", clipped: "timestamp", source: "Personal Web
\* Clipper", '---', an empty line, '# ' and the title as given, an empty
\* line, the content as given, an empty line, '---', an empty line, the
\* Source line '**Source:** [url](url)' ending in two spaces, and the
\* Clipped line.
C15_Template ==
  clip.markdown # Null
    => clip.markdown[1] =
         Join(<< <<"-", "-", "-">>,
                 FrontMatterLine(<<"t", "i", "t", "l", "e">>, QuotesEscaped(clip.title)),
                 FrontMatterLine(<<"u", "r", "l">>, clip.url),
                 FrontMatterLine(<<"c", "l", "i", "p", "p", "e", "d">>, clip.timestamp),
                 FrontMatterLine(<<"s", "o", "u", "r", "c", "e">>,
                                 <<"P", "e", "r", "s", "o", "n", "a", "l", " ", "W", "e", "b", " ", "C", "l", "i", "p", "p", "e", "r">>),
                 <<"-", "-", "-">>,
                 <<>>,
                 <<"#", " ">> \o clip.title,
                 <<>>,
                 clip.content,
                 <<>>,
                 <<"-", "-", "-">>,
                 <<>>,
                 <<"*", "*", "S", "o", "u", "r", "c", "e", ":", "*", "*", " ">>
                   \o <<"[">> \o clip.url \o <<"]", "(">> \o clip.url
                   \o <<")", " ", " ">>,
                 <<"*", "*", "C", "l", "i", "p", "p", "e", "d", ":", "*", "*", " ">>
                   \o clip.localeString[1] >>,
              <<"\n">>)

\* A document was created for a title holding a double quote and a
\* backslash, and a url holding a double quote.
C15_Witness ==
  /\ clip.markdown # Null
  /\ {"\"", "\\"} \subseteq CharsOf(clip.title)
  /\ "\"" \in CharsOf(clip.url)
  /\ clip.content # <<>>

\* C16: a finished call of saveMarkdownFile has returned, and: without the
\* File System Access API it has downloaded once and returned false; with
\* every awaited call fulfilled it has returned true without a download; with
\* the picker rejected with an AbortError it has returned false and neither
\* saved nor downloaded; with any other rejection, of the picker or of a
\* call that writes, it has downloaded once and returned false.
C16_Outcomes ==
  saver.pc = "done"
    => /\ saver.result # Null
       /\ ~saver.isSupported
            => Len(saver.downloads) = 1 /\ saver.result = Some(FALSE)
       /\ saver.isSupported /\ saver.error = Null
            => saver.result = Some(TRUE) /\ saver.downloads = <<>>
       /\ saver.error = Some([name |-> "AbortError",
                              at |-> "showSaveFilePicker"])
            => /\ saver.result = Some(FALSE)
               /\ saver.downloads = <<>> /\ saver.file = Null
       /\ /\ saver.error # Null
          /\ saver.error # Some([name |-> "AbortError",
                                 at |-> "showSaveFilePicker"])
          => Len(saver.downloads) = 1 /\ saver.result = Some(FALSE)

\* C17: whatever operations of the ConfigManager have run, the JSON text
\* stored under 'llmjudge_settings' has no member named openaiApiKey or
\* anthropicApiKey.
C17_NoKeysInSettings ==
  SETTINGS \in DOMAIN storage
    => \A member \in storage[SETTINGS] :
         member[1] \notin {"openaiApiKey", "anthropicApiKey"}

\* Settings were saved while the settings object held both API keys, which
\* are stored under their own keys.
C17_Witness ==
  /\ SETTINGS \in DOMAIN storage
  /\ config.last \in {"setDefaultProvider", "updateSettings", "saveSettings"}
  /\ ~config.threw
  /\ Truthy(Get(config.settings, "openaiApiKey"))
  /\ Truthy(Get(config.settings, "anthropicApiKey"))
  /\ {OPENAI_API_KEY, ANTHROPIC_API_KEY} \subseteq DOMAIN storage
  /\ storage[SETTINGS] # {}

\* The tags whose elements convert to a block
BlockTags ==
  HeadingTags \cup {Tag_p, Tag_blockquote, Tag_pre, Tag_hr, Tag_ul, Tag_ol}

IsBlock(n) == IsElement(n) /\ ToLowerCase(n.tagName) \in BlockTags

\* The lines of block are whole lines of out, with an empty line or an end
\* of out before them and after them
OccursSeparated(out, block) ==
  LET outLines == Split(out, "\n")
      blockLines == Split(block, "\n")
      m == Len(blockLines)
  IN  \E k \in 1..(Len(outLines) - m + 1) :
        /\ \A j \in 1..m : outLines[k + j - 1] = blockLines[j]
        /\ k = 1 \/ outLines[k - 1] = <<>>
        /\ k + m - 1 = Len(outLines) \/ outLines[k + m] = <<>>

\* C18: in what htmlToMarkdown returns for an element of a tag that is not
\* special-cased, the block of each child h1..h6, p, blockquote, pre, hr, ul
\* or ol stands between empty lines (or the ends of the output), whatever
\* its siblings are, inline text included.
C18_BlocksSeparated ==
  \A t \in DOMAIN results :
    IsTransparent(Node(t))
      => \A i \in 1..Len(Node(t).childNodes) :
           LET block == CleanupMarkdown(contrib[t \o <<i>>])
           IN  IsBlock(Node(t).childNodes[i]) /\ block # <<>>
                 => OccursSeparated(results[t], block)

\* s with two spaces put after each newline
Indented(s) ==
  Concat([i \in 1..Len(s) |->
            IF s[i] = "\n" THEN <<"\n", " ", " ">> ELSE <<s[i]>>])

\* The line of the k-th li child of the list at p
ItemLine(p, k) ==
  (IF ToLowerCase(Node(p).tagName) = Tag_ol THEN <<Digits[k + 1], ".", " ">>
   ELSE <<"-", " ">>)
    \o Indented(ItemText(p, LiIndices(Node(p))[k])) \o <<"\n">>

\* C19: what a ul or ol contributes is made of the lines of its li children
\* alone: a child that is a text node or an element other than li adds
\* nothing, and neither does an li below such a child.
C19_DirectItemsOnly ==
  \A p \in DOMAIN contrib :
    IsList(Node(p))
      => contrib[p] =
           <<"\n">>
             \o Concat([k \in 1..Len(LiIndices(Node(p))) |-> ItemLine(p, k)])
             \o <<"\n">>

\* A list was converted that has, between two li children, a text node and
\* an element that is not an li and holds an li.
C19_Witness ==
  \E p \in DOMAIN contrib :
    LET kids == Node(p).childNodes
        idx == LiIndices(Node(p))
    IN  /\ IsList(Node(p)) /\ Len(idx) >= 2
        /\ \E i \in (idx[1] + 1)..(idx[Len(idx)] - 1) : IsText(kids[i])
        /\ \E i \in (idx[1] + 1)..(idx[Len(idx)] - 1) :
             /\ IsElement(kids[i]) /\ ~IsItem(kids[i])
             /\ \E j \in 1..Len(kids[i].childNodes) :
                  IsItem(kids[i].childNodes[j])

Spaces(n) == [j \in 1..n |-> " "]

EndsWith(s, suffix) ==
  Len(suffix) <= Len(s) /\ Drop(s, Len(s) - Len(suffix)) = suffix

\* The prefix of the k-th li child of the list at q
ItemPrefix(q, k) ==
  IF ToLowerCase(Node(q).tagName) = Tag_ol THEN <<Digits[k + 1], ".", " ">>
  ELSE <<"-", " ">>

\* The prefix and the first line of the text of the k-th li child of the
\* list at q, as they stand in a result
ItemStart(q, k) ==
  ItemPrefix(q, k)
    \o StripTrailingSpaces(
         Split(ItemText(q, LiIndices(Node(q))[k]), "\n")[1])

RECURSIVE NestedLists(_, _)
\* The lists that are children of the li children of the list at p, and the
\* lists nested in those, each with its depth, the list at p being at depth d
NestedLists(p, d) ==
  UNION {
    UNION {
      IF IsList(Node(p \o <<i, j>>))
      THEN {<<p \o <<i, j>>, d + 1>>} \cup NestedLists(p \o <<i, j>>, d + 1)
      ELSE {}
      : j \in 1..Len(Node(p).childNodes[i].childNodes) }
    : i \in {LiIndices(Node(p))[k] : k \in 1..Len(LiIndices(Node(p)))} }

\* The items of the nested lists of the list at t: the list, its depth and
\* the number of the item, for the items with text
NestedItems(t) ==
  UNION {{<<e[1], e[2], k>> : k \in 1..Len(LiIndices(Node(e[1])))} :
           e \in NestedLists(t, 0)}

HasText(item) == ItemText(item[1], LiIndices(Node(item[1]))[item[3]]) # <<>>

\* The item has a line of its own in the result for t, indented by two
\* spaces for each level of its depth
OwnLine(t, item) ==
  \E n \in 1..Len(Split(results[t], "\n")) :
    Split(results[t], "\n")[n]
      = Spaces(2 * item[2]) \o ItemStart(item[1], item[3])

\* C20 as claimed: in the result for a list, each item with text of a list
\* nested d levels deep in list items starts a line of its own after exactly
\* 2 * d spaces.
C20_NestedIndent ==
  \A t \in DOMAIN results :
    IsList(Node(t))
      => \A item \in NestedItems(t) : HasText(item) => OwnLine(t, item)

\* The list at q is the first thing in its item: what the item holds before
\* it converted to nothing but whitespace
OpensItem(q) ==
  LET li == SubSeq(q, 1, Len(q) - 1)
  IN  Trim(Concat([j \in 1..(q[Len(q)] - 1) |-> contrib[li \o <<j>>]])) = <<>>

\* The prefix of the item the list at q is in
EnclosingPrefix(q) ==
  LET list == SubSeq(q, 1, Len(q) - 2)
      idx == LiIndices(Node(list))
  IN  ItemPrefix(list, CHOOSE k \in 1..Len(idx) : idx[k] = q[Len(q) - 1])

\* The item stands on the line of the item it is nested in, right after that
\* item's prefix
SharedLine(t, item) ==
  \E n \in 1..Len(Split(results[t], "\n")) :
    EndsWith(Split(results[t], "\n")[n],
             EnclosingPrefix(item[1]) \o ItemStart(item[1], item[3]))

\* C20 as amended: so it does, but for the first item of a nested list that
\* is the first thing in its item: the trim of the item's content puts it on
\* the line of that item, right after its prefix.
C20_NestedIndentUnlessFirst ==
  \A t \in DOMAIN results :
    IsList(Node(t))
      => \A item \in NestedItems(t) :
           HasText(item)
             => IF item[3] = 1 /\ OpensItem(item[1])
                THEN SharedLine(t, item) /\ ~OwnLine(t, item)
                ELSE OwnLine(t, item)

\* A list was converted with a list two levels deep in its items, whose
\* second item has a line of its own after four spaces, and whose first item
\* stands on the line of the item the list opens.
C20_Witness ==
  \E t \in DOMAIN results :
    /\ IsList(Node(t))
    /\ \E item \in NestedItems(t) :
         /\ item[2] = 2 /\ item[3] = 2 /\ HasText(item)
         /\ OwnLine(t, item)
         /\ OpensItem(item[1])
         /\ SharedLine(t, <<item[1], item[2], 1>>)


IsQuote(n) == IsElement(n) /\ ToLowerCase(n.tagName) = Tag_blockquote

\* The lines between the leading newline and the two trailing newlines of a
\* block
BlockLines(block) == Split(SubSeq(block, 2, Len(block) - 2), "\n")

\* C21: a blockquote whose children's contributions, concatenated and
\* trimmed, are a non-empty t contributes a newline, the non-empty lines of t
\* in their order, each after "> " and joined by one newline, and two
\* newlines; every line of a nested blockquote's block appears after "> " in
\* the block of the enclosing one, so starts with "> > ".
C21_Blockquote ==
  \A p \in DOMAIN contrib :
    IsQuote(Node(p)) /\ Trim(KidsContent(p)) # <<>>
      => LET lines == Split(Trim(KidsContent(p)), "\n")
             kept == SelectSeq(lines, LAMBDA l : Len(l) > 0)
             block == contrib[p]
             n == Len(block)
         IN  /\ n >= 3
             /\ block[1] = "\n" /\ block[n - 1] = "\n" /\ block[n] = "\n"
             /\ Len(BlockLines(block)) = Len(kept)
             /\ \A j \in 1..Len(kept) :
                  BlockLines(block)[j] = <<">", " ">> \o kept[j]
             /\ \A i \in 1..Len(Node(p).childNodes) :
                  IsQuote(Node(p).childNodes[i]) /\ contrib[p \o <<i>>] # <<>>
                    => \A k \in 1..Len(BlockLines(contrib[p \o <<i>>])) :
                         \E j \in 1..Len(BlockLines(block)) :
                           /\ BlockLines(block)[j]
                                = <<">", " ">> \o BlockLines(contrib[p \o <<i>>])[k]
                           /\ Take(BlockLines(block)[j], 4) = <<">", " ", ">", " ">>

\* A blockquote was converted whose content had empty lines to drop and a
\* whitespace-only line to keep, and which holds a blockquote of two lines.
C21_Witness ==
  \E p \in DOMAIN contrib :
    /\ IsQuote(Node(p)) /\ Trim(KidsContent(p)) # <<>>
    /\ \E l \in 1..Len(Split(Trim(KidsContent(p)), "\n")) :
         Split(Trim(KidsContent(p)), "\n")[l] = <<>>
    /\ \E j \in 1..Len(BlockLines(contrib[p])) :
         BlockLines(contrib[p])[j] = <<">", " ", " ">>
    /\ \E i \in 1..Len(Node(p).childNodes) :
         /\ IsQuote(Node(p).childNodes[i])
         /\ Len(BlockLines(contrib[p \o <<i>>])) = 2


RECURSIVE DescendantText(_)
\* The data of the text nodes below a node, in document order
DescendantText(n) ==
  IF IsText(n) THEN n.data
  ELSE IF IsElement(n)
       THEN Concat([i \in 1..Len(n.childNodes) |-> DescendantText(n.childNodes[i])])
       ELSE <<>>

\* C22: a code element contributes a backtick, the text of its descendant
\* text nodes in document order, unchanged, and a backtick; a pre element
\* contributes a newline, a fence line, that same text, a fence line and an
\* empty line.
C22_FullText ==
  \A p \in DOMAIN contrib :
    IsElement(Node(p))
      => LET tagName == ToLowerCase(Node(p).tagName)
             text == DescendantText(Node(p))
         IN  /\ tagName = Tag_code
                  => contrib[p] = <<Backtick>> \o text \o <<Backtick>>
             /\ tagName = Tag_pre
                  => contrib[p] = <<"\n">> \o Fence \o <<"\n">> \o text
                                    \o <<"\n">> \o Fence \o <<"\n", "\n">>


\* C24: the cleanup pass is idempotent: applied to a result of htmlToMarkdown,
\* itself a result of the cleanup pass, it changes nothing.
C24_CleanupIdempotent ==
  \A target \in DOMAIN results :
    CleanupMarkdown(results[target]) = results[target]


IsLink(n) == IsElement(n) /\ ToLowerCase(n.tagName) = Tag_a

\* C25: the text of the text nodes inside an a element reaches the output
\* escaped as a text node outside a link is: in what the a element
\* contributes, as link label or as bare text, each metacharacter of its
\* trimmed text is preceded by an added backslash.
C25_LinkTextEscaped ==
  \A p \in DOMAIN contrib :
    IsLink(Node(p))
      => LET label == SinglePassEscape(Trim(DescendantText(Node(p))))
         IN  \/ contrib[p] = label
             \/ /\ "href" \in DOMAIN Node(p).attributes
                /\ contrib[p] = <<"[">> \o label \o <<"]", "(">>
                                  \o Node(p).attributes["href"] \o <<")">>


\* The number of consecutive backslashes that end just before position i of s
BackslashesBefore(s, i) ==
  RunLen([j \in 1..(i - 1) |-> s[i - j]], {"\\"})

\* C26: the title of the front matter is a well-formed double-quoted string
\* on one line: the second line of the document is the title key, an opening
\* quote, the value and a closing quote, the third line is the url line, and
\* each double quote inside the value has an odd number of backslashes
\* before it.
C26_TitleWellFormed ==
  clip.markdown # Null
    => LET lines == Split(clip.markdown[1], "\n")
           line == lines[2]
           value == SubSeq(line, Len(Str_titleKey) + 1, Len(line) - 1)
       IN  /\ Len(line) > Len(Str_titleKey)
           /\ StartsWith(line, Str_titleKey)
           /\ line[Len(line)] = "\""
           /\ StartsWith(lines[3], Str_urlKey)
           /\ \A i \in 1..Len(value) :
                value[i] = "\"" => BackslashesBefore(value, i) % 2 = 1


\* C27: once clearAllData has completed without throwing, getApiKey returns
\* no key for either provider and getSettings returns the original defaults:
\* defaultProvider 'openai', defaultModel 'gpt-4', maxTokens 1000,
\* temperature 0.7, and nothing else that is defined.
C27_ClearResets ==
  config.last = "clearAllData" /\ ~config.threw
    => /\ GetApiKey(config, "openai") = Undefined
       /\ GetApiKey(config, "anthropic") = Undefined
       /\ \A name \in DOMAIN GetSettings(config) \cup DOMAIN DefaultSettings :
            Get(GetSettings(config), name)
              = IF name \in DOMAIN DefaultSettings THEN DefaultSettings[name]
                ELSE Undefined


\* Whether isClippablePage skips the URL
Skipped(url) == \E domain \in SkipDomains : StartsWith(url, domain)

\* The element the first selector, in the order of the list, whose first
\* match is visible and has more than 200 characters of text selects
FirstSuitable(dom) ==
  LET Hit(k) ==
        \E i \in 1..Len(dom) :
          /\ CONTENT_SELECTORS[k] \in dom[i].matches
          /\ \A j \in 1..(i - 1) : CONTENT_SELECTORS[k] \notin dom[j].matches
          /\ dom[i].visible /\ dom[i].textLength > 200
      hits == {k \in 1..Len(CONTENT_SELECTORS) : Hit(k)}
  IN  IF hits = {} THEN NullElement
      ELSE LET k == CHOOSE k \in hits : \A h \in hits : k <= h
               i == CHOOSE i \in 1..Len(dom) :
                      /\ CONTENT_SELECTORS[k] \in dom[i].matches
                      /\ \A j \in 1..(i - 1) :
                           CONTENT_SELECTORS[k] \notin dom[j].matches
           IN  dom[i].id

\* A step is a call of findContentElement, or of isClippablePage on a URL
\* that is not skipped
ScanningCall ==
  \/ extractor'.last.op = "findContentElement"
  \/ extractor'.last.op = "isClippablePage" /\ ~Skipped(extractor.url)

\* What a call that found the element or null r returns
Returns(r) ==
  extractor'.last.returned =
    IF extractor'.last.op = "findContentElement" THEN r
    ELSE IF r = NullElement THEN "false" ELSE "true"

\* C23: with the cache cleared, a call of findContentElement (or of
\* isClippablePage on a URL that is not skipped) scans the selectors in
\* priority order, returns what the scan found and caches it; with a cached
\* result, element or null, such a call returns the cached result without
\* scanning and leaves it cached, whatever the page has become; only
\* clearContentCache clears the cache.
C23_CacheUntilCleared ==
  [][ /\ ScanningCall /\ extractor.cachedContentElement = Undefined
        => /\ extractor'.last.scanned
           /\ Returns(FirstSuitable(extractor.dom))
           /\ extractor'.cachedContentElement = FirstSuitable(extractor.dom)
      /\ ScanningCall /\ extractor.cachedContentElement # Undefined
        => /\ ~extractor'.last.scanned
           /\ Returns(extractor.cachedContentElement)
           /\ extractor'.cachedContentElement = extractor.cachedContentElement
      /\ extractor'.last.op = "clearContentCache"
        => extractor'.cachedContentElement = Undefined
      /\ extractor'.cachedContentElement # extractor.cachedContentElement
        => \/ extractor'.last.op = "clearContentCache"
           \/ ScanningCall /\ extractor.cachedContentElement = Undefined
    ]_vars

\* A call on a URL that is not skipped returned the cached result without
\* scanning although a scan of the page as it is now would find something
\* else: a cached null on a page that has gained content, or a cached element
\* on a page that has lost it.
C23_Witness ==
  /\ extractor.last.op \in {"findContentElement", "isClippablePage"}
  /\ ~Skipped(extractor.url)
  /\ ~extractor.last.scanned
  /\ extractor.cachedContentElement # Undefined
  /\ FirstSuitable(extractor.dom) # extractor.cachedContentElement
  /\ NullElement \in {FirstSuitable(extractor.dom), extractor.cachedContentElement}


\* C28: finalizeSetup has run at most once, so at most one keydown handler,
\* one URL observer and four menu commands are registered, and one press of
\* Ctrl/Cmd+Shift+C starts clipArticle at most once.
C28_FinalizeOnce ==
  /\ clipper.finalized <= 1
  /\ clipper.keydownHandlers <= 1
  /\ Len(clipper.lastUrl) <= 1
  /\ clipper.menuCommands <= 4
  /\ clipper.clipsStarted <= 1


\* The Markdown document has reached the user: written to the picked file or
\* downloaded
Delivered == saver.file # Null \/ Len(saver.downloads) > 0

Shown(message) ==
  \E i \in 1..Len(clipping.notifications) : clipping.notifications[i] = message

\* C30: when clipArticle has extracted an article and finished, it has shown
\* the success notification if and only if the document was written through
\* the picker or downloaded, and the cancelled notification only when
\* neither happened.
C30_FaithfulNotification ==
  clipping.pc = "done" /\ clipping.article
    => /\ Shown(Note_success) <=> Delivered
       /\ Shown(Note_cancelled) => ~Delivered


\* C29: with auto-redirect off, whenever no timer is pending and the
\* 'View as Video' button is in the document, the path starts with /shorts/.
C29_ButtonOnlyOnShorts ==
  /\ ~player.autoRedirect
  /\ player.started
  /\ player.timers = <<>>
  /\ player.button
  => StartsWith(Pathname(player.url), Str_shorts)

====
